---- MODULE Spec2Model ----
(***************************************************************************)
(* State-replay engine of the Safe transaction service:                    *)
(* SafeTxProcessor (history/indexers/tx_processor.py) over the tables of   *)
(* history/models.py.                                                      *)
(***************************************************************************)
EXTENDS Naturals, Sequences, FiniteSets, TLC

VARIABLES
    decoded,    \* InternalTxDecoded rows with their InternalTx, by internal_tx_id
    db,         \* committed tables
    work,       \* the tables as seen inside the running transaction.atomic block
    cache,      \* SafeTxProcessor.safe_last_status_cache
    pc,         \* "idle", or "loop" inside process_decoded_transactions
    entry,      \* the method called last
    calls,      \* internal_txs_decoded of the last call (internal_tx ids)
    idx,        \* position of the for loop of process_decoded_transactions
    results,    \* the local list `results`
    banned_addresses,   \* the local set `banned_addresses`
    returned,   \* Some(list) the last call handed to its caller, Nothing when it
                \* raised or is running (process_decoded_transaction: a list of one)
    raised      \* exception the last call raised, None when it returned

vars == <<decoded, db, work, cache, pc, entry, calls, idx, results,
          banned_addresses, returned, raised>>

-----------------------------------------------------------------------------
(* Bounds of the model *)

MaxDecoded == 3     \* InternalTxDecoded rows
MaxBatch == 3       \* length of the input of process_decoded_transactions
MaxReplay == 2      \* length of an input that holds calls processed before
MaxNonce == 3       \* nonces stay at or below this value
MaxList == 3        \* owner and module lists stay at or below this length
MaxTx == 2          \* EthereumTx rows

-----------------------------------------------------------------------------
(* Values *)

None == "None"
NULL_ADDRESS == "0x0"

GasThreshold == 1000

Safes == {"S1", "S2"}

\* An optional integer (a nullable column, an optional dict key): <<>> or <<n>>
Nothing == <<>>
IsSome(opt) == opt # <<>>
Value(opt) == opt[1]

Contains(seq, x) == \E i \in 1..Len(seq) : seq[i] = x

\* list.remove(x): removes the first occurrence
RECURSIVE ListRemove(_, _)
ListRemove(seq, x) ==
    IF seq = <<>> THEN <<>>
    ELSE IF Head(seq) = x THEN Tail(seq)
    ELSE <<Head(seq)>> \o ListRemove(Tail(seq), x)

\* list.insert(0, x)
ListInsertHead(seq, x) == <<x>> \o seq

\* [new if cur == old else cur for cur in seq]
ListReplace(seq, old, new) ==
    [i \in 1..Len(seq) |-> IF seq[i] = old THEN new ELSE seq[i]]

-----------------------------------------------------------------------------
(* InternalTxDecoded.arguments: a dict; an absent key is None here (Nothing
   for the integer `nonce`, <<>> for the hash); `_threshold` 0 stands for every falsy threshold,
   None included *)

NoArguments ==
    [_owners |-> <<>>, _threshold |-> 0, fallbackHandler |-> None,
     owner |-> None, oldOwner |-> None, newOwner |-> None,
     _masterCopy |-> None, handler |-> None, guard |-> None,
     module |-> None, hashToApprove |-> <<>>, nonce |-> Nothing,
     gasField |-> None, payload |-> None, signatures |-> <<>>]

\* "key in arguments", for the value stored under the key
HasKey(v) == v # None

\* One InternalTxDecoded with its InternalTx (InternalTxDecodedFactory) and
\* the answers of the collaborators for it: the caller of the previous trace
\* (tracing node) and whether the logs of the EthereumTx hold a failure event
InternalTxDecoded(from, to, fn, arguments, gas_used, previous_trace, failure_log) ==
    [_from |-> from, to |-> to, function_name |-> fn, arguments |-> arguments,
     gas_used |-> gas_used, previous_trace |-> previous_trace,
     failure_log |-> failure_log]

\* Rows are numbered in chain order: internal_tx i belongs to EthereumTx
\* min(i, MaxTx)
EthereumTxOf(internal_tx) == IF internal_tx < MaxTx THEN internal_tx ELSE MaxTx

\* EthereumTx rows: block number and index inside the block
BlockNumber(ethereum_tx) == (ethereum_tx + 1) \div 2
TransactionIndex(ethereum_tx) == (ethereum_tx + 1) % 2

-----------------------------------------------------------------------------
(* Tables. Every table is a set of rows; the key of each table is unique. *)

\* SafeStatusBase: the columns shared by SafeLastStatus and SafeStatus
SafeStatusBase(internal_tx, address, owners, threshold, nonce, master_copy, fallback_handler, guard, enabled_modules) ==
    [internal_tx |-> internal_tx, address |-> address, owners |-> owners,
     threshold |-> threshold, nonce |-> nonce, master_copy |-> master_copy,
     fallback_handler |-> fallback_handler, guard |-> guard,
     enabled_modules |-> enabled_modules]

EmptyTables ==
    [SafeContract |-> {}, SafeLastStatus |-> {}, SafeStatus |-> {},
     MultisigTransaction |-> {}, MultisigConfirmation |-> {},
     ModuleTransaction |-> {}, SafeRelevantTransaction |-> {},
     SafeContractDelegate |-> {}, SafeMessageConfirmation |-> {},
     processed |-> {}]

\* SafeMasterCopy rows (address, version); the table is not written by the processor
SafeMasterCopy ==
    {[address |-> "MC1", version |-> [release |-> <<1, 1, 1>>, local |-> ""]],
     [address |-> "MC2", version |-> [release |-> <<1, 3, 0>>, local |-> "L2"]]}

\* SafeMasterCopyManager.get_version_for_address: Nothing or Some(version)
get_version_for_address(address) ==
    IF \E m \in SafeMasterCopy : m.address = address
    THEN <<(CHOOSE m \in SafeMasterCopy : m.address = address).version>>
    ELSE <<>>

\* get_banned_addresses that filters banned=False
get_banned_addresses_not_banned(tables, addresses) ==
    {c.address : c \in {c \in tables.SafeContract :
                            ~c.banned /\ c.address \in addresses}}

\* SafeContractQuerySet.banned / SafeContractManager.get_banned_addresses
get_banned_addresses(tables, addresses) ==
    LET banned == {c \in tables.SafeContract : c.banned}
        filtered == IF addresses # {}
                    THEN {c \in banned : c.address \in addresses}
                    ELSE banned
    IN {c.address : c \in filtered}

\* SafeStatusQuerySet.sorted_by_mined: TRUE when s comes before t
\* (-nonce, -block_number, -transaction_index, -internal_tx_id)
MinedAfter(s, t) ==
    LET sb == BlockNumber(EthereumTxOf(s.internal_tx))
        tb == BlockNumber(EthereumTxOf(t.internal_tx))
        si == TransactionIndex(EthereumTxOf(s.internal_tx))
        ti == TransactionIndex(EthereumTxOf(t.internal_tx))
    IN \/ s.nonce > t.nonce
       \/ s.nonce = t.nonce /\ sb > tb
       \/ s.nonce = t.nonce /\ sb = tb /\ si > ti
       \/ s.nonce = t.nonce /\ sb = tb /\ si = ti /\ s.internal_tx >= t.internal_tx

\* last_for_address that takes the snapshot of the greatest raw-call id
last_for_address_by_id(tables, address) ==
    LET rows == {s \in tables.SafeStatus : s.address = address}
    IN IF rows = {} THEN <<>>
       ELSE <<CHOOSE s \in rows : \A t \in rows : s.internal_tx >= t.internal_tx>>

\* SafeStatusQuerySet.last_for_address: Nothing or Some(row)
last_for_address(tables, address) ==
    LET rows == {s \in tables.SafeStatus : s.address = address}
    IN IF rows = {} THEN <<>>
       ELSE <<CHOOSE s \in rows : \A t \in rows : MinedAfter(s, t)>>

\* SafeLastStatusManager.update_or_create_from_safe_status
update_or_create_from_safe_status(tables, safe_status) ==
    [tables EXCEPT !.SafeLastStatus =
        {l \in @ : l.address # safe_status.address} \cup {safe_status}]

\* SafeLastStatusManager.get_or_generate: the row (Nothing when DoesNotExist is
\* raised) and the tables, which it writes when it generates the row
get_or_generate(tables, address) ==
    IF \E l \in tables.SafeLastStatus : l.address = address
    THEN [status |-> <<CHOOSE l \in tables.SafeLastStatus : l.address = address>>,
          tables |-> tables]
    ELSE LET safe_status == last_for_address(tables, address)
         IN IF safe_status # <<>>
            THEN [status |-> safe_status,
                  tables |-> update_or_create_from_safe_status(tables, safe_status[1])]
            ELSE [status |-> <<>>, tables |-> tables]

\* signals.add_to_historical_table: post_save of SafeLastStatus stores the same
\* columns as a SafeStatus row, whose primary key is internal_tx
add_to_historical_table(tables, safe_last_status) ==
    [tables EXCEPT !.SafeStatus =
        {s \in @ : s.internal_tx # safe_last_status.internal_tx}
            \cup {safe_last_status}]

\* is_corrupted that asks for more distinct nonces than latest nonce + 1
is_corrupted_off_by_one(tables, safe_status) ==
    LET safe_status_count ==
            Cardinality({s.nonce : s \in {s \in tables.SafeStatus :
                            /\ s.address = safe_status.address
                            /\ s.nonce <= safe_status.nonce}})
    IN safe_status_count # 0 /\ safe_status_count <= safe_status.nonce + 1

\* SafeStatusBase.is_corrupted: SafeStatus.objects.distinct("nonce")
\* .filter(address, nonce__lte=self.nonce).count(), then
\* `safe_status_count and safe_status_count <= self.nonce`
is_corrupted(tables, safe_status) ==
    LET safe_status_count ==
            Cardinality({s.nonce : s \in {s \in tables.SafeStatus :
                            /\ s.address = safe_status.address
                            /\ s.nonce <= safe_status.nonce}})
    IN safe_status_count # 0 /\ safe_status_count <= safe_status.nonce

-----------------------------------------------------------------------------
(* SafeTxProcessor. The processor state is (tables, cache); every method
   returns the new state together with its result or the exception raised. *)

\* clear_cache that takes the branch without address: the cache is emptied
clear_cache_whole(c, safe_address) == <<>>

\* clear_cache that deletes nothing
clear_cache_nothing(c, safe_address) == c

\* SafeTxProcessor.clear_cache(safe_address): the entry of the address, or
\* the whole cache when no address is given
clear_cache(c, safe_address) ==
    IF safe_address # None
    THEN [a \in (DOMAIN c) \ {safe_address} |-> c[a]]
    ELSE <<>>

\* a finally block that clears nothing
clear_cache_all_nothing(c, addresses) == c

\* clear_cache for each address of a set (the finally block of the batch)
clear_cache_all(c, addresses) ==
    [a \in (DOMAIN c) \ addresses |-> c[a]]

\* SafeTxProcessor.get_last_safe_status_for_address: the object it returns
\* (Nothing for None), whether that object is the one held by the cache, and
\* the tables
get_last_safe_status_for_address(tables, c, address) ==
    IF address \in DOMAIN c
    THEN [status |-> <<c[address]>>, cached |-> TRUE, tables |-> tables]
    ELSE LET g == get_or_generate(tables, address)
         IN [status |-> g.status, cached |-> FALSE, tables |-> g.tables]

\* SafeTxProcessor.store_new_safe_status
store_new_safe_status(tables, c, safe_last_status, internal_tx) ==
    LET row == [safe_last_status EXCEPT !.internal_tx = internal_tx]
        saved == [tables EXCEPT !.SafeLastStatus =
                    {l \in @ : l.address # row.address} \cup {row}]
    IN [tables |-> add_to_historical_table(saved, row),
        cache |-> [a \in DOMAIN c \cup {row.address} |->
                      IF a = row.address THEN row ELSE c[a]]]

\* What a method hands back
Return(tables, c, result) ==
    [tables |-> tables, cache |-> c, result |-> result, exc |-> None]
Raise(tables, c, exc) ==
    [tables |-> tables, cache |-> c, result |-> FALSE, exc |-> exc]

\* An object read through the cache is the cached object: a mutation of it is
\* seen by the next reader even when it is never stored
Mutated(c, cached, status) ==
    IF cached THEN [c EXCEPT ![status.address] = status] ELSE c

\* SafeContractDelegateManager.remove_delegates_for_owner_in_safe
remove_delegates_for_owner_in_safe(tables, safe_address, owner_address) ==
    [tables EXCEPT !.SafeContractDelegate =
        {d \in @ : ~(d.safe_contract = safe_address /\ d.delegator = owner_address)}]

\* remove_unused_confirmations without the filter on the nonce
remove_unused_confirmations_any_nonce(tables, safe, current_safe_nonce, owner) ==
    LET unused(conf) ==
            /\ conf.owner = owner
            /\ \E t \in tables.MultisigTransaction :
                  /\ conf.multisig_transaction = <<t.safe_tx_hash>>
                  /\ t.ethereum_tx = <<>>
                  /\ t.safe = safe
    IN [tables EXCEPT !.MultisigConfirmation = {conf \in @ : ~unused(conf)}]

\* MultisigConfirmationManager.remove_unused_confirmations
remove_unused_confirmations(tables, safe, current_safe_nonce, owner) ==
    LET unused(conf) ==
            /\ conf.owner = owner
            /\ \E t \in tables.MultisigTransaction :
                  /\ conf.multisig_transaction = <<t.safe_tx_hash>>
                  /\ t.ethereum_tx = <<>>
                  /\ t.safe = safe
                  /\ t.nonce >= current_safe_nonce
    IN [tables EXCEPT !.MultisigConfirmation = {conf \in @ : ~unused(conf)}]

\* swap_owner without the check that the owner is in the list
swap_owner_unchecked(tables, c, cached, internal_tx, safe_status, owner, new_owner) ==
    LET contract_address == decoded[internal_tx]._from
        removed == [safe_status EXCEPT !.owners = ListRemove(@, owner)]
        swapped == [safe_status EXCEPT !.owners = ListReplace(@, owner, new_owner)]
        new_status == IF new_owner = None THEN removed ELSE swapped
        t1 == remove_delegates_for_owner_in_safe(tables, safe_status.address, owner)
        t2 == remove_unused_confirmations(
                  t1, contract_address, safe_status.nonce, owner)
        t3 == [t2 EXCEPT !.SafeMessageConfirmation = {m \in @ : m.owner # owner}]
    IN [status |-> new_status, tables |-> t3,
        cache |-> Mutated(c, cached, new_status), exc |-> None]

\* SafeTxProcessor.swap_owner; safe_status is the object the caller holds,
\* `cached` tells whether the cache holds that same object
swap_owner(tables, c, cached, internal_tx, safe_status, owner, new_owner) ==
    LET contract_address == decoded[internal_tx]._from
    IN IF ~Contains(safe_status.owners, owner)
       THEN [status |-> safe_status, tables |-> tables,
             cache |-> Mutated(c, cached, safe_status),
             exc |-> "OwnerCannotBeRemoved"]
       ELSE
        LET removed == [safe_status EXCEPT !.owners = ListRemove(@, owner)]
            swapped == [safe_status EXCEPT !.owners = ListReplace(@, owner, new_owner)]
            new_status == IF new_owner = None THEN removed ELSE swapped
            t1 == IF new_owner = None \/ swapped.owners # safe_status.owners
                  THEN remove_delegates_for_owner_in_safe(
                           tables, safe_status.address, owner)
                  ELSE tables
            t2 == remove_unused_confirmations(
                      t1, contract_address, safe_status.nonce, owner)
            t3 == [t2 EXCEPT !.SafeMessageConfirmation =
                      {m \in @ : m.owner # owner}]
        IN [status |-> new_status, tables |-> t3,
            cache |-> Mutated(c, cached, new_status), exc |-> None]

\* disable_module without the check that the module is enabled
disable_module_unchecked(tables, c, cached, internal_tx, safe_status, module) ==
    LET new_status == [safe_status EXCEPT !.enabled_modules = ListRemove(@, module)]
    IN [status |-> new_status, tables |-> tables,
        cache |-> Mutated(c, cached, new_status), exc |-> None]

\* SafeTxProcessor.disable_module
disable_module(tables, c, cached, internal_tx, safe_status, module) ==
    IF ~Contains(safe_status.enabled_modules, module)
    THEN [status |-> safe_status, tables |-> tables,
          cache |-> Mutated(c, cached, safe_status),
          exc |-> "ModuleCannotBeDisabled"]
    ELSE LET new_status ==
                [safe_status EXCEPT !.enabled_modules = ListRemove(@, module)]
         IN [status |-> new_status, tables |-> tables,
             cache |-> Mutated(c, cached, new_status), exc |-> None]

\* packaging Version: comparison of two release tuples of three numbers
VersionLess(v, w) ==
    \/ v[1] < w[1]
    \/ v[1] = w[1] /\ v[2] < w[2]
    \/ v[1] = w[1] /\ v[2] = w[2] /\ v[3] < w[3]

\* Version(...).base_version: drops the local part (+L2)
base_version(version) == [release |-> version.release, local |-> ""]

\* SafeTxProcessor.signature_breaking_versions
signature_breaking_versions == {<<1, 0, 0>>, <<1, 3, 0>>}

\* is_version_breaking_signatures without the swap of the two versions
is_version_breaking_signatures_ordered(old_safe_version, new_safe_version) ==
    LET old_version == base_version(old_safe_version).release
        new_version == base_version(new_safe_version).release
    IN \E breaking_version \in signature_breaking_versions :
          /\ VersionLess(old_version, breaking_version)
          /\ ~VersionLess(new_version, breaking_version)

\* SafeTxProcessor.is_version_breaking_signatures
is_version_breaking_signatures(old_safe_version, new_safe_version) ==
    LET o == base_version(old_safe_version).release
        n == base_version(new_safe_version).release
        old_version == IF VersionLess(n, o) THEN n ELSE o
        new_version == IF VersionLess(n, o) THEN o ELSE n
    IN \E breaking_version \in signature_breaking_versions :
          /\ VersionLess(old_version, breaking_version)
          /\ ~VersionLess(new_version, breaking_version)

\* queued without the filter on the last executed nonce
queued_not_executed(tables, safe_address) ==
    {t \in tables.MultisigTransaction :
        t.ethereum_tx = <<>> /\ t.safe = safe_address}

\* MultisigTransactionQuerySet.queued
queued(tables, safe_address) ==
    LET executed == {t \in tables.MultisigTransaction :
                        t.ethereum_tx # <<>> /\ t.safe = safe_address}
        above(t) == \A e \in executed : t.nonce > e.nonce
    IN {t \in tables.MultisigTransaction :
          t.ethereum_tx = <<>> /\ t.safe = safe_address /\ above(t)}

\* SafeTx.safe_tx_hash: the EIP-712 hash of the wallet, the transaction
\* fields, the nonce and the domain the version selects
safe_tx_hash(safe, payload, base_gas_field, nonce, safe_version) ==
    [safe |-> safe, payload |-> payload, nonce |-> nonce,
     domain |-> IF base_gas_field = "dataGas" THEN "dataGas"
                ELSE IF VersionLess(safe_version.release, <<1, 3, 0>>)
                     THEN "baseGas"
                     ELSE "baseGas+chainId"]

\* index_safe_contract that saves the origin transaction of every setup
index_safe_contract_overwrite(tables, contract_address, ethereum_tx) ==
    [tables EXCEPT !.SafeContract =
        {sc \in @ : sc.address # contract_address} \cup
        {[address |-> contract_address, ethereum_tx |-> <<ethereum_tx>>,
          banned |-> \E sc \in @ : sc.address = contract_address /\ sc.banned]}]

\* `setup`: SafeContract.objects.get(address) with the origin transaction
\* filled in when missing, or SafeContract.objects.create
index_safe_contract(tables, contract_address, ethereum_tx) ==
    IF \E sc \in tables.SafeContract : sc.address = contract_address
    THEN [tables EXCEPT !.SafeContract =
            {IF sc.address = contract_address /\ sc.ethereum_tx = <<>>
             THEN [sc EXCEPT !.ethereum_tx = <<ethereum_tx>>]
             ELSE sc : sc \in @}]
    ELSE [tables EXCEPT !.SafeContract = @ \cup
            {[address |-> contract_address, ethereum_tx |-> <<ethereum_tx>>,
              banned |-> FALSE]}]

\* setup_status that reads arguments["fallbackHandler"] without a default
setup_status_handler_required(internal_tx) ==
    LET d == decoded[internal_tx]
    IN SafeStatusBase(internal_tx, d._from, d.arguments._owners,
                      d.arguments._threshold, 0, d.to,
                      d.arguments.fallbackHandler, None, <<>>)

\* `setup`: the SafeLastStatus(...) it builds; guard and enabled_modules take
\* the defaults of SafeStatusBase
setup_status(internal_tx) ==
    LET d == decoded[internal_tx]
    IN SafeStatusBase(internal_tx, d._from, d.arguments._owners,
                      d.arguments._threshold, 0, d.to,
                      IF HasKey(d.arguments.fallbackHandler)
                      THEN d.arguments.fallbackHandler ELSE NULL_ADDRESS,
                      None, <<>>)

\* Branch `setup` of __process_decoded_transaction
process_setup(tables, c, internal_tx) ==
    LET t1 == index_safe_contract(tables, decoded[internal_tx]._from,
                                  EthereumTxOf(internal_tx))
        stored == store_new_safe_status(t1, c, setup_status(internal_tx),
                                        internal_tx)
    IN Return(stored.tables, stored.cache, TRUE)

\* Branch addOwnerWithThreshold / removeOwner / removeOwnerWithThreshold
process_owner_modification(tables, c, cached, internal_tx, safe_last_status) ==
    LET d == decoded[internal_tx]
        s1 == [safe_last_status EXCEPT !.threshold =
                  IF d.arguments._threshold # 0 THEN d.arguments._threshold ELSE @]
        c1 == Mutated(c, cached, s1)
    IN IF d.function_name = "addOwnerWithThreshold"
       THEN LET s2 == [s1 EXCEPT !.owners = ListInsertHead(@, d.arguments.owner)]
                stored == store_new_safe_status(tables, c1, s2, internal_tx)
            IN Return(stored.tables, stored.cache, TRUE)
       ELSE LET sw == swap_owner(tables, c1, cached, internal_tx, s1,
                                 d.arguments.owner, None)
            IN IF sw.exc # None THEN Raise(sw.tables, sw.cache, sw.exc)
               ELSE LET stored == store_new_safe_status(
                                      sw.tables, sw.cache, sw.status, internal_tx)
                    IN Return(stored.tables, stored.cache, TRUE)

\* Branch swapOwner
process_swap_owner(tables, c, cached, internal_tx, safe_last_status) ==
    LET d == decoded[internal_tx]
        sw == swap_owner(tables, c, cached, internal_tx, safe_last_status,
                         d.arguments.oldOwner, d.arguments.newOwner)
    IN IF sw.exc # None THEN Raise(sw.tables, sw.cache, sw.exc)
       ELSE LET stored == store_new_safe_status(
                              sw.tables, sw.cache, sw.status, internal_tx)
            IN Return(stored.tables, stored.cache, TRUE)

\* Branches that assign one field and store the status: changeThreshold,
\* setFallbackHandler, setGuard, enableModule
process_field_change(tables, c, cached, internal_tx, safe_last_status) ==
    LET d == decoded[internal_tx]
        fn == d.function_name
        s1 == IF fn = "changeThreshold"
              THEN [safe_last_status EXCEPT !.threshold = d.arguments._threshold]
              ELSE IF fn = "setFallbackHandler"
              THEN [safe_last_status EXCEPT !.fallback_handler = d.arguments.handler]
              ELSE IF fn = "setGuard"
              THEN [safe_last_status EXCEPT !.guard =
                      IF d.arguments.guard # NULL_ADDRESS
                      THEN d.arguments.guard ELSE None]
              ELSE [safe_last_status EXCEPT !.enabled_modules =
                      Append(@, d.arguments.module)]
        stored == store_new_safe_status(tables, c, s1, internal_tx)
    IN Return(stored.tables, stored.cache, TRUE)

\* Branch changeMasterCopy
process_change_master_copy(tables, c, cached, internal_tx, safe_last_status) ==
    LET d == decoded[internal_tx]
        contract_address == d._from
        old_safe_version == get_version_for_address(safe_last_status.master_copy)
        s1 == [safe_last_status EXCEPT !.master_copy = d.arguments._masterCopy]
        new_safe_version == get_version_for_address(s1.master_copy)
        t1 == IF /\ old_safe_version # <<>>
                 /\ new_safe_version # <<>>
                 /\ is_version_breaking_signatures(
                        old_safe_version[1], new_safe_version[1])
              THEN LET gone == queued(tables, contract_address)
                   IN [tables EXCEPT
                         !.MultisigTransaction = @ \ gone,
                         \* on_delete=CASCADE of MultisigConfirmation.multisig_transaction
                         !.MultisigConfirmation =
                            {conf \in @ : \A t \in gone :
                                conf.multisig_transaction # <<t.safe_tx_hash>>}]
              ELSE tables
        stored == store_new_safe_status(t1, c, s1, internal_tx)
    IN Return(stored.tables, stored.cache, TRUE)

\* Branch disableModule
process_disable_module(tables, c, cached, internal_tx, safe_last_status) ==
    LET d == decoded[internal_tx]
        dm == disable_module(tables, c, cached, internal_tx, safe_last_status,
                             d.arguments.module)
    IN IF dm.exc # None THEN Raise(dm.tables, dm.cache, dm.exc)
       ELSE LET stored == store_new_safe_status(
                              dm.tables, dm.cache, dm.status, internal_tx)
            IN Return(stored.tables, stored.cache, TRUE)

\* tracing.get_previous_trace followed by InternalTx.objects.build_from_trace:
\* the caller of the previous trace; None when there is no previous trace,
\* "Web3RPCError" when the node fails
get_previous_trace(internal_tx) == decoded[internal_tx].previous_trace

\* SafeTxProcessor.is_module_failed / is_failed: whether the logs of the
\* EthereumTx hold the failure event of this call
is_failed(internal_tx) == decoded[internal_tx].failure_log

\* SafeRelevantTransaction.objects.create(ethereum_tx, safe): a new row, with
\* the next automatic id, whether the marker exists or not
relevant_create(tables, ethereum_tx, safe) ==
    [tables EXCEPT !.SafeRelevantTransaction =
        @ \cup {[id |-> Cardinality(@) + 1,
                 ethereum_tx |-> ethereum_tx, safe |-> safe]}]

\* SafeRelevantTransaction.objects.get_or_create(ethereum_tx, safe): the row
\* of the pair when there is one, otherwise a new row with the next id
relevant_get_or_create(tables, ethereum_tx, safe) ==
    IF \E r \in tables.SafeRelevantTransaction :
          r.ethereum_tx = ethereum_tx /\ r.safe = safe
    THEN tables
    ELSE [tables EXCEPT !.SafeRelevantTransaction =
            @ \cup {[id |-> Cardinality(@) + 1,
                     ethereum_tx |-> ethereum_tx, safe |-> safe]}]

\* a lookup whose Web3RPCError is taken for the trace
module_previous_trace_unguarded(internal_tx) == get_previous_trace(internal_tx)

\* try: get_previous_trace(...) except Web3RPCError: previous_trace = None
module_previous_trace(internal_tx) ==
    LET trace == get_previous_trace(internal_tx)
    IN IF trace = "Web3RPCError" THEN None ELSE trace

\* Branch execTransactionFromModule / execTransactionFromModuleReturnData
process_module_transaction(tables, c, cached, internal_tx, safe_last_status) ==
    LET d == decoded[internal_tx]
        contract_address == d._from
        previous_trace == module_previous_trace(internal_tx)
        module_address == IF HasKey(d.arguments.module)
                          THEN d.arguments.module ELSE previous_trace
        row == [internal_tx |-> internal_tx, safe |-> contract_address,
                module |-> module_address, failed |-> is_failed(internal_tx)]
        t1 == IF \E m \in tables.ModuleTransaction : m.internal_tx = internal_tx
              THEN tables
              ELSE [tables EXCEPT !.ModuleTransaction = @ \cup {row}]
        t2 == relevant_get_or_create(t1, EthereumTxOf(internal_tx), contract_address)
    IN IF ~HasKey(d.arguments.module) /\ previous_trace = None
       THEN Raise(tables, c, "CannotFindPreviousTrace")
       ELSE Return(t2, c, TRUE)

\* SafeSignatureApprovedHash.build_for_owner(...).export_signature()
approved_hash_signature(owner) == [owner |-> owner, signature_type |-> "APPROVED_HASH"]

\* approveHash that sets the transaction of the confirmation in any case
bind_confirmation_always(multisig_confirmation, ethereum_tx) ==
    [multisig_confirmation EXCEPT !.ethereum_tx = <<ethereum_tx>>]

\* approveHash: `if not multisig_confirmation.ethereum_tx_id`, set it and save
bind_confirmation(multisig_confirmation, ethereum_tx) ==
    IF multisig_confirmation.ethereum_tx = <<>>
    THEN [multisig_confirmation EXCEPT !.ethereum_tx = <<ethereum_tx>>]
    ELSE multisig_confirmation

\* Branch approveHash
process_approve_hash(tables, c, cached, internal_tx, safe_last_status) ==
    LET d == decoded[internal_tx]
        multisig_transaction_hash == d.arguments.hashToApprove[1]
        previous_trace == get_previous_trace(internal_tx)
        owner == IF HasKey(d.arguments.owner) THEN d.arguments.owner
                 ELSE previous_trace
        safe_signature == approved_hash_signature(owner)
        same(conf) == /\ conf.multisig_transaction_hash = multisig_transaction_hash
                      /\ conf.owner = owner
        created == [multisig_transaction_hash |-> multisig_transaction_hash,
                    owner |-> owner, ethereum_tx |-> <<EthereumTxOf(internal_tx)>>,
                    multisig_transaction |-> <<>>,
                    signature |-> safe_signature,
                    signature_type |-> safe_signature.signature_type]
        t1 == IF \E conf \in tables.MultisigConfirmation : same(conf)
              THEN [tables EXCEPT !.MultisigConfirmation =
                      {IF same(conf)
                       THEN bind_confirmation(conf, EthereumTxOf(internal_tx))
                       ELSE conf : conf \in @}]
              ELSE [tables EXCEPT !.MultisigConfirmation = @ \cup {created}]
    IN IF ~HasKey(d.arguments.owner) /\ previous_trace = "Web3RPCError"
       THEN Raise(tables, c, "Web3RPCError")
       ELSE IF ~HasKey(d.arguments.owner) /\ previous_trace = None
       THEN Raise(tables, c, "CannotFindPreviousTrace")
       ELSE Return(t1, c, TRUE)

\* The loop over SafeSignature.parse_signature(safe_tx.signatures, safe_tx_hash)
RECURSIVE store_confirmations(_, _, _)
store_confirmations(tables, signatures, hash) ==
    IF signatures = <<>> THEN tables
    ELSE LET safe_signature == Head(signatures)
             same(conf) == /\ conf.multisig_transaction_hash = hash
                           /\ conf.owner = safe_signature.owner
             created == [multisig_transaction_hash |-> hash,
                         owner |-> safe_signature.owner, ethereum_tx |-> <<>>,
                         multisig_transaction |-> <<hash>>,
                         signature |-> safe_signature,
                         signature_type |-> safe_signature.signature_type]
             t1 == IF \E conf \in tables.MultisigConfirmation : same(conf)
                   THEN [tables EXCEPT !.MultisigConfirmation =
                           {IF same(conf) /\ conf.signature # safe_signature
                            THEN [conf EXCEPT
                                    !.signature = safe_signature,
                                    !.signature_type = safe_signature.signature_type]
                            ELSE conf : conf \in @}]
                   ELSE [tables EXCEPT !.MultisigConfirmation = @ \cup {created}]
         IN store_confirmations(t1, Tail(signatures), hash)

\* resolve_nonce that never reads the arguments
resolve_nonce_current(arguments, safe_last_status) == safe_last_status.nonce

\* execTransaction: the nonce of the transaction, from the arguments (events
\* of L2 Safes) or from the status
resolve_nonce(arguments, safe_last_status) ==
    IF IsSome(arguments.nonce) THEN Value(arguments.nonce)
    ELSE safe_last_status.nonce

\* execTransaction: safe_last_status.nonce = nonce + 1
advance_nonce(safe_last_status, nonce) ==
    [safe_last_status EXCEPT !.nonce = nonce + 1]

\* execTransaction that overwrites the execution of the stored transaction
fill_execution_always(multisig_tx, ethereum_tx, failed, signatures) ==
    [multisig_tx EXCEPT !.ethereum_tx = <<ethereum_tx>>, !.failed = <<failed>>,
                        !.signatures = signatures, !.trusted = TRUE]

\* execTransaction: `if not multisig_tx.ethereum_tx_id`, set ethereum_tx,
\* failed, signatures and trusted, and save these four fields
fill_execution(multisig_tx, ethereum_tx, failed, signatures) ==
    IF multisig_tx.ethereum_tx = <<>>
    THEN [multisig_tx EXCEPT !.ethereum_tx = <<ethereum_tx>>, !.failed = <<failed>>,
                             !.signatures = signatures, !.trusted = TRUE]
    ELSE multisig_tx

\* Branch execTransaction
process_exec_transaction(tables, c, cached, internal_tx, safe_last_status) ==
    LET d == decoded[internal_tx]
        contract_address == d._from
        nonce == resolve_nonce(d.arguments, safe_last_status)
        version == get_version_for_address(safe_last_status.master_copy)
        safe_version ==
            IF d.arguments.gasField = "baseGas"
            THEN (IF version # <<>> THEN version[1]
                  ELSE [release |-> <<1, 3, 0>>, local |-> ""])
            ELSE [release |-> <<0, 0, 1>>, local |-> ""]
        hash == safe_tx_hash(contract_address, d.arguments.payload,
                             d.arguments.gasField, nonce, safe_version)
        failed == is_failed(internal_tx)
        created == [safe_tx_hash |-> hash, safe |-> contract_address,
                    ethereum_tx |-> <<EthereumTxOf(internal_tx)>>,
                    payload |-> d.arguments.payload, nonce |-> nonce,
                    signatures |-> d.arguments.signatures,
                    failed |-> <<failed>>, trusted |-> TRUE]
        t1 == IF \E t \in tables.MultisigTransaction : t.safe_tx_hash = hash
              THEN [tables EXCEPT !.MultisigTransaction =
                      {IF t.safe_tx_hash = hash
                       THEN fill_execution(t, EthereumTxOf(internal_tx), failed,
                                           d.arguments.signatures)
                       ELSE t : t \in @}]
              ELSE [tables EXCEPT !.MultisigTransaction = @ \cup {created}]
        t2 == relevant_get_or_create(t1, EthereumTxOf(internal_tx), contract_address)
        \* safe_tx.signatures are the signatures of the call
        t3 == store_confirmations(t2, d.arguments.signatures, hash)
        s1 == advance_nonce(safe_last_status, nonce)
        stored == store_new_safe_status(t3, c, s1, internal_tx)
    IN Return(stored.tables, stored.cache, TRUE)

\* The gas guard with `<=` in place of `<`
gas_used_at_or_below_threshold(internal_tx) ==
    decoded[internal_tx].gas_used <= GasThreshold

\* internal_tx.gas_used < 1000
gas_used_below_threshold(internal_tx) ==
    decoded[internal_tx].gas_used < GasThreshold

\* a missing status that lets SafeLastStatus.DoesNotExist out
process_missing_status_raises(tables, c) == Raise(tables, c, "DoesNotExist")

\* `if not safe_last_status`: processed_successfully = False
process_missing_status(tables, c) == Return(tables, c, FALSE)

\* a last branch that leaves processed_successfully at True
process_unknown_function_successfully(tables, c) == Return(tables, c, TRUE)

\* The last `else`: processed_successfully = False
process_unknown_function(tables, c) == Return(tables, c, FALSE)

\* SafeTxProcessor.__process_decoded_transaction
__process_decoded_transaction(tables, c, internal_tx) ==
    LET d == decoded[internal_tx]
        contract_address == d._from
        function_name == d.function_name
        got == get_last_safe_status_for_address(tables, c, contract_address)
    IN IF gas_used_below_threshold(internal_tx) THEN Return(tables, c, FALSE)
       ELSE IF function_name = "setup" /\ contract_address # NULL_ADDRESS
       THEN process_setup(tables, c, internal_tx)
       ELSE IF got.status = <<>> THEN process_missing_status(got.tables, c)
       ELSE IF function_name \in {"addOwnerWithThreshold", "removeOwner",
                                  "removeOwnerWithThreshold"}
       THEN process_owner_modification(got.tables, c, got.cached, internal_tx, got.status[1])
       ELSE IF function_name = "swapOwner"
       THEN process_swap_owner(got.tables, c, got.cached, internal_tx, got.status[1])
       ELSE IF function_name \in {"changeThreshold", "setFallbackHandler",
                                  "setGuard", "enableModule"}
       THEN process_field_change(got.tables, c, got.cached, internal_tx, got.status[1])
       ELSE IF function_name = "changeMasterCopy"
       THEN process_change_master_copy(got.tables, c, got.cached, internal_tx, got.status[1])
       ELSE IF function_name = "disableModule"
       THEN process_disable_module(got.tables, c, got.cached, internal_tx, got.status[1])
       ELSE IF function_name \in {"execTransactionFromModule",
                                  "execTransactionFromModuleReturnData"}
       THEN process_module_transaction(got.tables, c, got.cached, internal_tx, got.status[1])
       ELSE IF function_name = "approveHash"
       THEN process_approve_hash(got.tables, c, got.cached, internal_tx, got.status[1])
       ELSE IF function_name = "execTransaction"
       THEN process_exec_transaction(got.tables, c, got.cached, internal_tx, got.status[1])
       ELSE process_unknown_function(got.tables, c)

-----------------------------------------------------------------------------
(* The two entry points *)

\* except clauses without the one for TxProcessorException
except_clause_only_trace(exc) ==
    IF exc = "CannotFindPreviousTrace" THEN "raise" ELSE "uncaught"

\* except clauses in the other order: TxProcessorException first
except_clause_swapped(exc) ==
    IF exc \in {"OwnerCannotBeRemoved", "ModuleCannotBeDisabled",
                "CannotFindPreviousTrace", "UserOperationFailed"}
    THEN "absorb"
    ELSE "uncaught"

\* The except clauses of process_decoded_transactions, in their order:
\* CannotFindPreviousTrace is raised again, any other TxProcessorException
\* is absorbed, anything else is not caught
except_clause(exc) ==
    IF exc = "CannotFindPreviousTrace" THEN "raise"
    ELSE IF exc \in {"OwnerCannotBeRemoved", "ModuleCannotBeDisabled",
                     "CannotFindPreviousTrace", "UserOperationFailed"}
         THEN "absorb"
         ELSE "uncaught"

\* a block that is not atomic: what was written stays
atomic_no_rollback(committed, written, exc) == written

\* @transaction.atomic: the tables that stay when the block is left
atomic(committed, written, exc) == IF exc = None THEN written ELSE committed

\* ignore_banned that skips the call without a result
ignore_banned_no_result(result_list) == result_list

\* The branch of a banned Safe: results.append(False)
ignore_banned(result_list) == Append(result_list, FALSE)

\* The caps of the model on what a call may leave behind
WithinBounds(tables) ==
    \A s \in tables.SafeLastStatus :
        /\ s.nonce <= MaxNonce
        /\ Len(s.owners) <= MaxList
        /\ Len(s.enabled_modules) <= MaxList

ContractAddresses(input) == {decoded[input[i]]._from : i \in 1..Len(input)}

\* set_processed that marks the first call only
set_processed_first(tables, internal_tx_ids) ==
    IF internal_tx_ids = {} THEN tables
    ELSE [tables EXCEPT !.processed =
            @ \cup {CHOOSE i \in internal_tx_ids : \A j \in internal_tx_ids : i <= j}]

\* InternalTxDecoded.set_processed / .update(processed=True)
set_processed(tables, internal_tx_ids) ==
    [tables EXCEPT !.processed = @ \cup internal_tx_ids]

\* SafeTxProcessor.process_decoded_transaction
process_decoded_transaction(internal_tx) ==
    /\ pc = "idle"
    /\ LET contract_address == decoded[internal_tx]._from
           r == __process_decoded_transaction(
                    db, clear_cache(cache, contract_address), internal_tx)
           written == IF r.exc = None
                      THEN set_processed(r.tables, {internal_tx})
                      ELSE r.tables
       IN /\ WithinBounds(r.tables)
          /\ db' = atomic(db, written, r.exc)
          /\ work' = db'
          /\ cache' = clear_cache(r.cache, contract_address)
          /\ returned' = IF r.exc = None THEN <<(<<r.result>>)>> ELSE <<>>
          /\ raised' = r.exc
    /\ entry' = "process_decoded_transaction"
    /\ calls' = <<internal_tx>>
    /\ UNCHANGED <<decoded, pc, idx, results, banned_addresses>>

\* process_decoded_transactions up to the for loop
process_decoded_transactions_begin(internal_txs_decoded) ==
    /\ pc = "idle"
    /\ entry' = "process_decoded_transactions"
    /\ calls' = internal_txs_decoded
    /\ results' = <<>>
    /\ idx' = 1
    /\ raised' = None
    /\ IF internal_txs_decoded = <<>>
       THEN /\ returned' = <<(<<>>)>>
            /\ UNCHANGED <<pc, banned_addresses>>
       ELSE /\ returned' = <<>>
            /\ pc' = "loop"
            /\ banned_addresses' =
                  get_banned_addresses(db, ContractAddresses(internal_txs_decoded))
    /\ work' = db
    /\ UNCHANGED <<decoded, db, cache>>

\* One iteration of the for loop; a raise leaves the method through the
\* finally block and the atomic block
process_decoded_transactions_loop ==
    /\ pc = "loop"
    /\ idx <= Len(calls)
    /\ LET internal_tx == calls[idx]
           contract_address == decoded[internal_tx]._from
           r == __process_decoded_transaction(work, cache, internal_tx)
       IN IF contract_address \in banned_addresses
          THEN /\ results' = ignore_banned(results)
               /\ idx' = idx + 1
               /\ UNCHANGED <<db, work, cache, pc, returned, raised>>
          ELSE /\ WithinBounds(r.tables)
               /\ IF r.exc = None \/ except_clause(r.exc) = "absorb"
                  THEN /\ results' = Append(results, IF r.exc = None THEN r.result ELSE FALSE)
                       /\ idx' = idx + 1
                       /\ work' = r.tables
                       /\ cache' = r.cache
                       /\ UNCHANGED <<db, pc, returned, raised>>
                  ELSE /\ cache' = clear_cache_all(r.cache, ContractAddresses(calls))
                       /\ db' = atomic(db, r.tables, r.exc)
                       /\ work' = db'
                       /\ pc' = "idle"
                       /\ raised' = r.exc
                       /\ returned' = <<>>
                       /\ UNCHANGED <<results, idx>>
    /\ UNCHANGED <<decoded, entry, calls, banned_addresses>>

\* After the loop: the bulk update, `return results`, the finally block
process_decoded_transactions_return ==
    /\ pc = "loop"
    /\ idx > Len(calls)
    /\ LET internal_tx_ids == {calls[i] : i \in 1..Len(calls)}
           written == set_processed(work, internal_tx_ids)
       IN /\ db' = atomic(db, written, None)
          /\ work' = db'
    /\ returned' = <<results>>
    /\ raised' = None
    /\ cache' = clear_cache_all(cache, ContractAddresses(calls))
    /\ pc' = "idle"
    /\ UNCHANGED <<decoded, entry, calls, idx, results, banned_addresses>>

\* SafeContractFactory(address=..., banned=True), or the flag set on a row
ban_safe(address) ==
    /\ pc = "idle"
    /\ ~\E sc \in db.SafeContract : sc.address = address /\ sc.banned
    /\ db' = [db EXCEPT !.SafeContract =
                IF \E sc \in @ : sc.address = address
                THEN {IF sc.address = address THEN [sc EXCEPT !.banned = TRUE]
                      ELSE sc : sc \in @}
                ELSE @ \cup {[address |-> address, ethereum_tx |-> <<MaxTx>>,
                              banned |-> TRUE]}]
    /\ work' = db'
    /\ UNCHANGED <<decoded, cache, pc, entry, calls, idx, results,
                   banned_addresses, returned, raised>>

\* The state before any call: empty tables, the rows given
InitWith(rows) ==
    /\ decoded = rows
    /\ db = EmptyTables
    /\ work = EmptyTables
    /\ cache = <<>>
    /\ pc = "idle"
    /\ entry = None
    /\ calls = <<>>
    /\ idx = 1
    /\ results = <<>>
    /\ banned_addresses = {}
    /\ returned = <<>>
    /\ raised = None

\* Sequences over a set, up to a length
SeqsUpTo(S, n) == UNION {[1..k -> S] : k \in 0..n}

-----------------------------------------------------------------------------
(* The decoded calls of the batches *)

Setup(safe, owners, threshold, to) ==
    InternalTxDecoded(safe, to, "setup",
        [NoArguments EXCEPT !._owners = owners, !._threshold = threshold,
                            !.fallbackHandler = "FH"],
        GasThreshold, None, FALSE)

OwnerCall(safe, fn, owner, threshold) ==
    InternalTxDecoded(safe, "MC1", fn,
        [NoArguments EXCEPT !.owner = owner, !._threshold = threshold],
        GasThreshold, None, FALSE)

ModuleCall(safe, previous_trace) ==
    InternalTxDecoded(safe, "MC1", "execTransactionFromModuleReturnData",
        [NoArguments EXCEPT !.payload = "P1"],
        GasThreshold, previous_trace, FALSE)

ExecTransaction(safe, nonce, signers) ==
    InternalTxDecoded(safe, "MC1", "execTransaction",
        [NoArguments EXCEPT !.nonce = nonce, !.payload = "P1",
                            !.gasField = "baseGas", !.signatures = signers],
        GasThreshold, None, FALSE)

LowGas(call) == [call EXCEPT !.gas_used = GasThreshold - 1]

Signed(owner) == <<[owner |-> owner, signature_type |-> "EOA"]>>

BatchRows ==
    {Setup("S1", <<"A">>, 1, "MC1"),
     Setup("S2", <<"A">>, 1, "MC1"),
     OwnerCall("S1", "removeOwner", "B", 0),
     OwnerCall("S1", "addOwnerWithThreshold", "B", 2),
     ModuleCall("S1", None),
     ModuleCall("S1", "M1"),
     ExecTransaction("S1", Nothing, Signed("A")),
     LowGas(OwnerCall("S1", "addOwnerWithThreshold", "C", 0))}

\* Inputs as the indexer builds them from InternalTxDecoded.objects.pending_for_safes():
\* calls not yet processed, each once
Pending(internal_tx) == internal_tx \notin db.processed

PendingInputs ==
    {input \in SeqsUpTo(DOMAIN decoded, MaxBatch) :
        /\ \A i \in 1..Len(input) : Pending(input[i])
        /\ \A i, j \in 1..Len(input) : i # j => input[i] # input[j]}

Init == \E rows \in [1..MaxDecoded -> BatchRows] : InitWith(rows)

Next ==
    \/ \E internal_tx \in DOMAIN decoded :
          Pending(internal_tx) /\ process_decoded_transaction(internal_tx)
    \/ \E input \in PendingInputs : process_decoded_transactions_begin(input)
    \/ process_decoded_transactions_loop
    \/ process_decoded_transactions_return
    \/ \E address \in Safes : ban_safe(address)

Spec == Init /\ [][Next]_vars

-----------------------------------------------------------------------------
(* Properties of process_decoded_transactions *)

\* A loop iteration is about to process calls[idx]
InLoop == pc = "loop" /\ idx <= Len(calls)
Current == decoded[calls[idx]]

\* The batch leaves the loop normally / by an exception in this step
Returns == pc = "loop" /\ pc' = "idle" /\ raised' = None
Aborts == pc = "loop" /\ pc' = "idle" /\ raised' # None

IsBanned(address) == \E sc \in db.SafeContract : sc.address = address /\ sc.banned

\* The latest configuration of a wallet inside the running unit of work
HasConfig(address) == \E l \in work.SafeLastStatus : l.address = address
Config(address) == CHOOSE l \in work.SafeLastStatus : l.address = address

\* The call would be dispatched: enough gas, and a configuration to work on
Dispatched(d) == d.gas_used >= GasThreshold /\ HasConfig(d._from)

\* Invariant violation: the owner or module to remove is absent
InvariantViolation(d) ==
    /\ Dispatched(d)
    /\ \/ /\ d.function_name \in {"removeOwner", "removeOwnerWithThreshold"}
          /\ ~Contains(Config(d._from).owners, d.arguments.owner)
       \/ /\ d.function_name = "swapOwner"
          /\ ~Contains(Config(d._from).owners, d.arguments.oldOwner)
       \/ /\ d.function_name = "disableModule"
          /\ ~Contains(Config(d._from).enabled_modules, d.arguments.module)

\* Hard failure: the previous trace cannot be resolved
HardFailure(d) ==
    /\ Dispatched(d)
    /\ \/ /\ d.function_name \in {"execTransactionFromModule",
                                  "execTransactionFromModuleReturnData"}
          /\ d.arguments.module = None
          /\ d.previous_trace \in {None, "Web3RPCError"}
       \/ /\ d.function_name = "approveHash"
          /\ d.arguments.owner = None
          /\ d.previous_trace = None

AllProcessed(tables) == \A i \in 1..Len(calls) : calls[i] \in tables.processed

\* C1: when process_decoded_transactions returns, the list has one boolean
\* per input call, in input order: False for the call of a banned Safe, False
\* for a call rejected with an invariant violation, otherwise the result of
\* the processor for that call.
C1_Outcome(internal_tx) ==
    IF IsBanned(decoded[internal_tx]._from) THEN FALSE
    ELSE IF InvariantViolation(decoded[internal_tx]) THEN FALSE
    ELSE __process_decoded_transaction(work, cache, internal_tx).result

C1_OneResultPerCall ==
    [][/\ (InLoop /\ pc' = "loop") =>
            results' = Append(results, C1_Outcome(calls[idx]))
       /\ Returns => /\ returned' = <<results>>
                     /\ Len(results) = Len(calls)
       /\ (pc = "idle" /\ pc' = "idle" /\ calls' = <<>>
             /\ entry' = "process_decoded_transactions")
            => returned' = <<(<<>>)>>]_vars

C1_Witness ==
    /\ pc = "idle" /\ entry = "process_decoded_transactions"
    /\ returned # <<>> /\ Len(calls) = MaxBatch
    /\ \E i, j \in 1..Len(calls) : returned[1][i] /\ ~returned[1][j]

\* C2: an invariant violation yields False for that call only: what earlier
\* calls wrote stays, the loop goes on with the next call, and every call of
\* the batch ends marked processed; setup, removal of an absent owner and a
\* valid third call for one wallet give [True, False, True].
C2_Example ==
    /\ Len(calls) = 3
    /\ \A i \in 1..3 : /\ decoded[calls[i]]._from = decoded[calls[1]]._from
                       /\ decoded[calls[i]].gas_used >= GasThreshold
    /\ ~IsBanned(decoded[calls[1]]._from)
    /\ decoded[calls[1]].function_name = "setup"
    /\ decoded[calls[2]].function_name = "removeOwner"
    /\ ~Contains(decoded[calls[1]].arguments._owners, decoded[calls[2]].arguments.owner)
    /\ decoded[calls[3]].function_name = "addOwnerWithThreshold"

C2_ViolationRejectsOneCall ==
    [][/\ (InLoop /\ ~IsBanned(Current._from) /\ InvariantViolation(Current)) =>
            /\ pc' = "loop"
            /\ idx' = idx + 1
            /\ results' = Append(results, FALSE)
            /\ work' = work
       /\ Returns => AllProcessed(db')
       /\ (Returns /\ C2_Example) => returned' = <<(<<TRUE, FALSE, TRUE>>)>>]_vars

C2_Witness ==
    /\ pc = "idle" /\ entry = "process_decoded_transactions"
    /\ C2_Example
    /\ returned = <<(<<TRUE, FALSE, TRUE>>)>>
    /\ AllProcessed(db)
    /\ \E l \in db.SafeLastStatus :
          l.address = decoded[calls[1]]._from /\ l.internal_tx = calls[3]

\* C3: a hard failure stops the batch at that call: the error reaches the
\* caller, no result list is returned and no later call is applied.
C3_HardFailureStopsBatch ==
    [][(InLoop /\ ~IsBanned(Current._from) /\ HardFailure(Current)) =>
            /\ pc' = "idle"
            /\ raised' = "CannotFindPreviousTrace"
            /\ returned' = <<>>
            /\ idx' = idx
            /\ results' = results]_vars

C3_Witness ==
    /\ pc = "idle" /\ entry = "process_decoded_transactions"
    /\ raised = "CannotFindPreviousTrace"
    /\ returned = <<>>
    /\ idx < Len(calls)
    /\ Len(results) = idx - 1

\* C4: a batch is one atomic unit: when it aborts, nothing it wrote persists,
\* the records of its earlier successful calls included.
C4_AbortPersistsNothing ==
    [][Aborts => db' = db /\ work' = db]_vars

C4_Witness ==
    /\ pc = "idle" /\ entry = "process_decoded_transactions"
    /\ raised = "CannotFindPreviousTrace"
    /\ idx > 1
    /\ results[1]
    /\ decoded[calls[1]].function_name \in {"setup", "execTransaction"}
    /\ ~\E s \in db.SafeStatus : s.internal_tx = calls[1]

\* C5 as stated: whatever the outcome of the batch, a hard failure included,
\* every input call is marked processed once the batch has ended.
C5_ProcessedWhateverOutcome ==
    (pc = "idle" /\ entry = "process_decoded_transactions") => AllProcessed(db)

\* C5 amended: every input call is marked processed when the batch returns
\* (all calls successful, some rejected, banned Safes); a batch that aborts
\* with a hard failure marks none of its calls.
C5_ProcessedWhenReturned ==
    [][/\ Returns => AllProcessed(db')
       /\ Aborts => db'.processed = db.processed]_vars

C5_Witness ==
    /\ pc = "idle" /\ entry = "process_decoded_transactions"
    /\ raised = "CannotFindPreviousTrace"
    /\ idx > 1
    /\ \A i \in 1..Len(calls) : calls[i] \notin db.processed

\* C6: the call of a banned Safe never reaches the processor: its result is
\* False, nothing of the wallet is created or changed, and the call is marked
\* processed at the end of the batch.
C6_BannedIgnored ==
    [][/\ (InLoop /\ IsBanned(Current._from)) =>
            /\ results' = Append(results, FALSE)
            /\ work' = work
            /\ cache' = cache
            /\ pc' = "loop"
            /\ idx' = idx + 1
       /\ Returns => \A i \in 1..Len(calls) :
                        IsBanned(decoded[calls[i]]._from) => calls[i] \in db'.processed]_vars

C6_Witness ==
    /\ pc = "idle" /\ entry = "process_decoded_transactions"
    /\ returned # <<>>
    /\ \E i, j \in 1..Len(calls) :
          /\ decoded[calls[i]]._from \in banned_addresses
          /\ decoded[calls[i]].function_name = "setup"
          /\ ~returned[1][i]
          /\ calls[i] \in db.processed
          /\ ~\E s \in db.SafeLastStatus \cup db.SafeStatus :
                s.address = decoded[calls[i]]._from
          /\ returned[1][j]

-----------------------------------------------------------------------------
(* The processing queue, and the decoded calls that exercise setup and the
   nonce *)

SetupNoHandler(safe, owners, threshold, to) ==
    InternalTxDecoded(safe, to, "setup",
        [NoArguments EXCEPT !._owners = owners, !._threshold = threshold],
        GasThreshold, None, FALSE)

EnableModule(safe, module) ==
    InternalTxDecoded(safe, "MC1", "enableModule",
        [NoArguments EXCEPT !.module = module],
        GasThreshold, None, FALSE)

ReplayRows ==
    {Setup("S1", <<"A">>, 1, "MC1"),
     SetupNoHandler("S1", <<"A", "B">>, 2, "MC2"),
     Setup(NULL_ADDRESS, <<"A">>, 1, "MC1"),
     ExecTransaction("S1", Nothing, Signed("A")),
     ExecTransaction("S1", <<2>>, Signed("A")),
     EnableModule("S1", "M1")}

QueueRows == ReplayRows \cup {ExecTransaction("S1", <<0>>, Signed("A"))}

\* The sort key without is_setup: block_number, transaction_index, id
QueuedBefore_chain_order(i, j) ==
    LET block(k) == BlockNumber(EthereumTxOf(k))
        index(k) == TransactionIndex(EthereumTxOf(k))
    IN \/ block(i) < block(j)
       \/ block(i) = block(j) /\ index(i) < index(j)
       \/ block(i) = block(j) /\ index(i) = index(j) /\ i <= j

\* InternalTxDecodedQuerySet.order_by_processing_queue: TRUE when i is queued
\* before j (is_setup, block_number, transaction_index, internal_tx_id)
QueuedBefore(i, j) ==
    LET is_setup(k) == IF decoded[k].function_name = "setup" THEN 0 ELSE 1
        block(k) == BlockNumber(EthereumTxOf(k))
        index(k) == TransactionIndex(EthereumTxOf(k))
    IN \/ is_setup(i) < is_setup(j)
       \/ is_setup(i) = is_setup(j) /\ block(i) < block(j)
       \/ is_setup(i) = is_setup(j) /\ block(i) = block(j) /\ index(i) < index(j)
       \/ /\ is_setup(i) = is_setup(j) /\ block(i) = block(j)
          /\ index(i) = index(j) /\ i <= j

RECURSIVE order_by_processing_queue(_)
order_by_processing_queue(ids) ==
    IF ids = {} THEN <<>>
    ELSE LET first == CHOOSE i \in ids : \A j \in ids : QueuedBefore(i, j)
         IN <<first>> \o order_by_processing_queue(ids \ {first})

\* InternalTxDecoded.objects.pending_for_safes()
pending_for_safes ==
    order_by_processing_queue({i \in DOMAIN decoded : Pending(i)})

\* InternalTxDecoded.objects.pending_for_safe(safe_address)
pending_for_safe(safe_address) ==
    SelectSeq(pending_for_safes, LAMBDA i : decoded[i]._from = safe_address)

\* The first calls of the queue, as the indexer hands them to the processor
QueueInputs ==
    {SubSeq(pending_for_safes, 1, n) :
        n \in 0..(IF Len(pending_for_safes) < MaxBatch
                  THEN Len(pending_for_safes) ELSE MaxBatch)}

\* The first call of a wallet on the chain is its setup
InitQueue ==
    \E rows \in [1..MaxDecoded -> QueueRows] :
        /\ rows[1].function_name = "setup"
        /\ rows[1]._from = "S1"
        /\ rows[1].gas_used >= GasThreshold
        /\ InitWith(rows)

\* The calls are processed in the order of the queue, each once
NextQueue ==
    \/ /\ pending_for_safes # <<>>
       /\ process_decoded_transaction(Head(pending_for_safes))
    \/ \E input \in QueueInputs : process_decoded_transactions_begin(input)
    \/ process_decoded_transactions_loop
    \/ process_decoded_transactions_return

SpecQueue == InitQueue /\ [][NextQueue]_vars

\* The first call of the wallet on the chain is its setup
InitReplay ==
    \E rows \in [1..MaxDecoded -> ReplayRows] :
        /\ rows[1].function_name = "setup"
        /\ rows[1]._from = "S1"
        /\ InitWith(rows)

\* Rows in the order of the queue, whether processed before or not
ReplayInputs ==
    {input \in {order_by_processing_queue(ids) : ids \in SUBSET (DOMAIN decoded)} :
        Len(input) <= MaxReplay}

\* Any call is processed at any time, any number of times
NextReplay ==
    \/ \E internal_tx \in DOMAIN decoded : process_decoded_transaction(internal_tx)
    \/ \E input \in ReplayInputs : process_decoded_transactions_begin(input)
    \/ process_decoded_transactions_loop
    \/ process_decoded_transactions_return

SpecReplay == InitReplay /\ [][NextReplay]_vars

-----------------------------------------------------------------------------
(* Properties of the branches setup and execTransaction *)

\* This step hands the call to __process_decoded_transaction and keeps what
\* it wrote: process_decoded_transaction, or an iteration of the loop
Applies(internal_tx) ==
    \/ process_decoded_transaction(internal_tx) /\ raised' = None
    \/ /\ InLoop /\ calls[idx] = internal_tx /\ idx' = idx + 1
       /\ decoded[internal_tx]._from \notin banned_addresses

\* The result of the call applied by this step
Applied(internal_tx) ==
    /\ Applies(internal_tx)
    /\ IF pc = "loop" THEN results'[Len(results')] ELSE returned'[1][1]

LatestRows(tables, address) == {l \in tables.SafeLastStatus : l.address = address}

\* C7: a successfully applied execTransaction whose resolved nonce is N (the
\* nonce argument when the call carries one, otherwise the latest nonce of the
\* wallet) leaves the latest nonce of the wallet at exactly N + 1.
C7_ExecAdvancesNonce ==
    [][\A internal_tx \in DOMAIN decoded :
          LET d == decoded[internal_tx]
          IN /\ d.function_name = "execTransaction"
             /\ Applied(internal_tx)
             => \E l \in LatestRows(work, d._from) :
                  LET N == IF d.arguments.nonce # <<>>
                           THEN d.arguments.nonce[1] ELSE l.nonce
                  IN /\ LatestRows(work, d._from) = {l}
                     /\ \E m \in LatestRows(work', d._from) :
                           /\ LatestRows(work', d._from) = {m}
                           /\ m.nonce = N + 1]_vars

\* An execTransaction with the explicit nonce 2 was applied to a wallet whose
\* only earlier transaction had nonce 0: the latest nonce is 3
C7_Witness ==
    /\ pc = "idle" /\ entry = "process_decoded_transaction"
    /\ returned = <<(<<TRUE>>)>>
    /\ decoded[calls[1]] = ExecTransaction("S1", <<2>>, Signed("A"))
    /\ \E l \in LatestRows(db, "S1") : l.nonce = 3
    /\ {t.nonce : t \in db.MultisigTransaction} = {0, 2}

\* s is before t in (block number, transaction index, internal_tx id)
SnapshotBefore(s, t) ==
    LET sb == BlockNumber(EthereumTxOf(s.internal_tx))
        tb == BlockNumber(EthereumTxOf(t.internal_tx))
        si == TransactionIndex(EthereumTxOf(s.internal_tx))
        ti == TransactionIndex(EthereumTxOf(t.internal_tx))
    IN \/ sb < tb
       \/ sb = tb /\ si < ti
       \/ sb = tb /\ si = ti /\ s.internal_tx < t.internal_tx

C8_SnapshotsOrdered ==
    \A s, t \in db.SafeStatus :
        s.address = t.address /\ SnapshotBefore(s, t) => s.nonce <= t.nonce

C8_LatestNeverDown ==
    \A l \in db.SafeLastStatus : \A m \in db'.SafeLastStatus :
        l.address = m.address => l.nonce <= m.nonce

\* C8: for every wallet and every sequence of processed calls (setup calls
\* seen again and execTransaction calls with a nonce argument included), the
\* nonces of the snapshots of the wallet, taken in (block, transaction index,
\* internal id) order, never decrease, and the latest nonce never goes down.
C8_NoncesNeverDecrease ==
    [](C8_SnapshotsOrdered) /\ [][C8_LatestNeverDown]_vars

\* C9: processing a setup call of a non-zero wallet address leaves a wallet
\* record for the address and the latest configuration of the wallet with
\* owners and threshold from the arguments, nonce 0, the target of the call as
\* master copy, the fallback handler of the arguments or the zero address, and
\* no enabled module.
C9_SetupConfiguration ==
    [][\A internal_tx \in DOMAIN decoded :
          LET d == decoded[internal_tx]
          IN /\ d.function_name = "setup"
             /\ d._from # NULL_ADDRESS
             /\ d.gas_used >= GasThreshold
             /\ Applies(internal_tx)
             => /\ \E sc \in work'.SafeContract : sc.address = d._from
                /\ \E l \in LatestRows(work', d._from) :
                      /\ LatestRows(work', d._from) = {l}
                      /\ l.owners = d.arguments._owners
                      /\ l.threshold = d.arguments._threshold
                      /\ l.nonce = 0
                      /\ l.master_copy = d.to
                      /\ l.fallback_handler =
                            (IF d.arguments.fallbackHandler = None
                             THEN NULL_ADDRESS ELSE d.arguments.fallbackHandler)
                      /\ l.enabled_modules = <<>>]_vars

\* A setup without fallback handler was applied to a wallet that had already
\* executed a transaction and enabled a module
C9_Witness ==
    /\ pc = "idle" /\ entry = "process_decoded_transaction"
    /\ returned = <<(<<TRUE>>)>>
    /\ decoded[calls[1]] = SetupNoHandler("S1", <<"A", "B">>, 2, "MC2")
    /\ \E l \in LatestRows(db, "S1") :
          l.fallback_handler = NULL_ADDRESS /\ l.nonce = 0 /\ l.enabled_modules = <<>>
    /\ \E s \in db.SafeStatus : s.address = "S1" /\ s.nonce > 0
    /\ \E s \in db.SafeStatus : s.address = "S1" /\ s.enabled_modules # <<>>

\* C10: a setup call processed for a wallet whose record has an origin
\* transaction leaves that origin transaction as it was and exactly one record
\* for the address: the origin is written only when the record has none.
C10_SetupKeepsOrigin ==
    [][\A internal_tx \in DOMAIN decoded :
          LET d == decoded[internal_tx]
          IN /\ d.function_name = "setup"
             /\ d._from # NULL_ADDRESS
             /\ d.gas_used >= GasThreshold
             /\ Applies(internal_tx)
             => \A sc \in work.SafeContract :
                   sc.address = d._from /\ sc.ethereum_tx # <<>>
                   => /\ sc \in work'.SafeContract
                      /\ \A other \in work'.SafeContract :
                            other.address = d._from => other = sc]_vars

\* The setup of internal_tx 2, of another transaction than the origin of the
\* wallet, was processed for a wallet whose record has the origin 1
C10_Witness ==
    /\ pc = "idle" /\ entry = "process_decoded_transaction"
    /\ returned = <<(<<TRUE>>)>>
    /\ calls = <<2>>
    /\ decoded[2].function_name = "setup"
    /\ decoded[2].gas_used >= GasThreshold
    /\ EthereumTxOf(2) # 1
    /\ \E sc \in db.SafeContract : sc.address = "S1" /\ sc.ethereum_tx = <<1>>
    /\ \E s \in db.SafeStatus : s.address = "S1" /\ s.internal_tx = 2

-----------------------------------------------------------------------------
(* Replays, rejected calls and owner changes *)

\* This step hands the call to __process_decoded_transaction, whatever comes
\* out of it
Handles(internal_tx) ==
    \/ process_decoded_transaction(internal_tx)
    \/ /\ InLoop /\ calls[idx] = internal_tx
       /\ decoded[internal_tx]._from \notin banned_addresses

\* The last call stored for the wallet is this very call
LastApplied(internal_tx) ==
    \E l \in LatestRows(work, decoded[internal_tx]._from) :
        l.internal_tx = internal_tx

\* C11: processing the same execTransaction call a second time, with or
\* without a nonce argument, computes the hash of the first time and creates
\* no record: the transactions and the confirmations stay as they were, one
\* transaction and one confirmation per signer.
C11_ExecReplayCreatesNothing ==
    [][\A internal_tx \in DOMAIN decoded :
          LET d == decoded[internal_tx]
          IN /\ d.function_name = "execTransaction"
             /\ LastApplied(internal_tx)
             /\ Applies(internal_tx)
             => /\ work'.MultisigTransaction = work.MultisigTransaction
                /\ work'.MultisigConfirmation = work.MultisigConfirmation]_vars

-----------------------------------------------------------------------------
(* Wallets with proposed transactions, confirmations and delegates *)

SwapOwner(safe, old_owner, new_owner) ==
    InternalTxDecoded(safe, "MC1", "swapOwner",
        [NoArguments EXCEPT !.oldOwner = old_owner, !.newOwner = new_owner],
        GasThreshold, None, FALSE)

DisableModule(safe, module) ==
    InternalTxDecoded(safe, "MC1", "disableModule",
        [NoArguments EXCEPT !.module = module],
        GasThreshold, None, FALSE)

\* A MultisigTransaction proposed through the API of the service: not executed
Proposal(safe, payload, nonce) ==
    [safe_tx_hash |-> safe_tx_hash(safe, payload, "baseGas", nonce,
                                   [release |-> <<1, 1, 1>>, local |-> ""]),
     safe |-> safe, ethereum_tx |-> <<>>, payload |-> payload, nonce |-> nonce,
     signatures |-> <<>>, failed |-> <<>>, trusted |-> FALSE]

\* The MultisigConfirmation of an owner for a proposed transaction
Confirmation(multisig_transaction, owner) ==
    [multisig_transaction_hash |-> multisig_transaction.safe_tx_hash,
     owner |-> owner, ethereum_tx |-> <<>>,
     multisig_transaction |-> <<multisig_transaction.safe_tx_hash>>,
     signature |-> [owner |-> owner, signature_type |-> "EOA"],
     signature_type |-> "EOA"]

\* Rows written by the other services before the calls are processed
StoredTables ==
    [EmptyTables EXCEPT
        !.MultisigTransaction =
            {Proposal("S1", "P1", 0), Proposal("S1", "P3", 0),
             Proposal("S1", "P2", 1), Proposal("S2", "P2", 0)},
        !.MultisigConfirmation =
            {Confirmation(Proposal("S1", "P2", 1), "B"),
             Confirmation(Proposal("S1", "P2", 1), "C"),
             Confirmation(Proposal("S2", "P2", 0), "B")},
        !.SafeContractDelegate =
            {[safe_contract |-> "S1", delegator |-> "B", delegate |-> "D1"],
             [safe_contract |-> "S1", delegator |-> "C", delegate |-> "D1"],
             [safe_contract |-> "S2", delegator |-> "B", delegate |-> "D1"]},
        !.SafeMessageConfirmation =
            {[safe_message |-> "Msg1", owner |-> "B"],
             [safe_message |-> "Msg1", owner |-> "C"]}]

\* The state before any call, over tables that hold rows already
InitFrom(rows, tables) ==
    /\ decoded = rows
    /\ db = tables
    /\ work = tables
    /\ cache = <<>>
    /\ pc = "idle"
    /\ entry = None
    /\ calls = <<>>
    /\ idx = 1
    /\ results = <<>>
    /\ banned_addresses = {}
    /\ returned = <<>>
    /\ raised = None

\* Pending calls are processed once each, alone or in batches
NextPending ==
    \/ \E internal_tx \in DOMAIN decoded :
          Pending(internal_tx) /\ process_decoded_transaction(internal_tx)
    \/ \E input \in PendingInputs : process_decoded_transactions_begin(input)
    \/ process_decoded_transactions_loop
    \/ process_decoded_transactions_return

OwnerRows ==
    {Setup("S1", <<"A", "B">>, 1, "MC1"),
     OwnerCall("S1", "removeOwnerWithThreshold", "C", 2),
     OwnerCall("S1", "removeOwner", "B", 0),
     SwapOwner("S1", "C", "D"),
     SwapOwner("S1", "B", "C"),
     DisableModule("S1", "M1"),
     EnableModule("S1", "M1"),
     OwnerCall("S1", "addOwnerWithThreshold", "C", 0),
     OwnerCall("S1", "addOwnerWithThreshold", "D", 2)}

InitOwners == \E rows \in [1..MaxDecoded -> OwnerRows] : InitFrom(rows, StoredTables)

SpecOwners == InitOwners /\ [][NextPending]_vars

\* What __process_decoded_transaction raises for the call of this step
Raises(internal_tx) ==
    __process_decoded_transaction(
        work,
        IF pc = "loop" THEN cache
        ELSE clear_cache(cache, decoded[internal_tx]._from),
        internal_tx).exc

\* The owner or the module the call removes, and the list it removes it from
Removes(d) ==
    IF d.function_name = "swapOwner" THEN d.arguments.oldOwner
    ELSE IF d.function_name = "disableModule" THEN d.arguments.module
    ELSE d.arguments.owner

RemovesFrom(d, l) ==
    IF d.function_name = "disableModule" THEN l.enabled_modules ELSE l.owners

-----------------------------------------------------------------------------
(* changeMasterCopy *)

ChangeMasterCopy(safe, master_copy) ==
    InternalTxDecoded(safe, "MC1", "changeMasterCopy",
        [NoArguments EXCEPT !._masterCopy = master_copy],
        GasThreshold, None, FALSE)

MasterCopyRows ==
    {Setup("S1", <<"A">>, 1, "MC1"),
     Setup("S1", <<"A">>, 1, "MC2"),
     ExecTransaction("S1", Nothing, Signed("A")),
     ChangeMasterCopy("S1", "MC2"),
     ChangeMasterCopy("S1", "MC1"),
     ChangeMasterCopy("S1", "MC9")}

InitMasterCopy ==
    \E rows \in [1..MaxDecoded -> MasterCopyRows] : InitFrom(rows, StoredTables)

SpecMasterCopy == InitMasterCopy /\ [][NextPending]_vars

\* The transactions of the wallet that are not executed and whose nonce is
\* above every executed nonce of the wallet
QueuedOf(tables, address) ==
    {t \in tables.MultisigTransaction :
        /\ t.safe = address
        /\ t.ethereum_tx = <<>>
        /\ \A e \in tables.MultisigTransaction :
              e.safe = address /\ e.ethereum_tx # <<>> => t.nonce > e.nonce}

\* C13: a changeMasterCopy between the known versions 1.1.1 (MC1) and 1.3.0
\* (MC2), which crosses a signature-breaking version, deletes exactly the
\* queued transactions of the wallet: no executed transaction and no
\* transaction of another wallet goes; the master copy is the argument.
C13_BreakingChangeDeletesQueued ==
    [][\A internal_tx \in DOMAIN decoded :
          LET d == decoded[internal_tx]
          IN \A l \in LatestRows(work, d._from) :
              /\ d.function_name = "changeMasterCopy"
              /\ <<l.master_copy, d.arguments._masterCopy>> \in
                    {<<"MC1", "MC2">>, <<"MC2", "MC1">>}
              /\ Applies(internal_tx)
              => /\ work'.MultisigTransaction =
                       work.MultisigTransaction \ QueuedOf(work, d._from)
                 /\ \A m \in LatestRows(work', d._from) :
                       m.master_copy = d.arguments._masterCopy]_vars

\* After an execution with nonce 0, the change from MC1 to MC2 deleted the
\* proposal with nonce 1 and kept the executed transaction, the unexecuted
\* one with nonce 0 and the proposal of the wallet S2
C13_Witness ==
    /\ pc = "idle" /\ raised = None /\ calls # <<>>
    /\ decoded[calls[Len(calls)]] = ChangeMasterCopy("S1", "MC2")
    /\ \E l \in LatestRows(db, "S1") :
          l.master_copy = "MC2" /\ l.internal_tx = calls[Len(calls)]
    /\ \E t \in db.MultisigTransaction :
          t.safe = "S1" /\ t.ethereum_tx # <<>> /\ t.nonce = 0
    /\ Proposal("S1", "P3", 0) \in db.MultisigTransaction
    /\ Proposal("S1", "P2", 1) \notin db.MultisigTransaction
    /\ Proposal("S2", "P2", 0) \in db.MultisigTransaction

-----------------------------------------------------------------------------
(* Calls that are rejected: little gas, unknown function, no status *)

UnknownCall(safe) ==
    InternalTxDecoded(safe, "MC1", "transfer", NoArguments,
                      GasThreshold, None, FALSE)

RejectRows ==
    {Setup("S1", <<"A">>, 1, "MC1"),
     LowGas(Setup("S1", <<"B">>, 1, "MC1")),
     OwnerCall("S1", "addOwnerWithThreshold", "C", 0),
     ExecTransaction("S1", Nothing, Signed("A")),
     LowGas(ExecTransaction("S1", Nothing, Signed("A"))),
     ModuleCall("S1", None),
     LowGas(ModuleCall("S1", None)),
     LowGas(OwnerCall("S1", "removeOwner", "C", 0)),
     UnknownCall("S1")}

InitReject ==
    \E rows \in [1..MaxDecoded -> RejectRows] : InitFrom(rows, StoredTables)

SpecReject == InitReject /\ [][NextPending]_vars

\* The step leaves the tables as they were, the processed flags aside
TablesKept == [work' EXCEPT !.processed = {}] = [work EXCEPT !.processed = {}]

\* The call of this step is rejected: no exception, the result False, no
\* table and no cache entry written
Rejected(internal_tx) ==
    /\ TablesKept
    /\ IF pc = "loop"
       THEN /\ pc' = "loop"
            /\ results' = Append(results, FALSE)
            /\ cache' = cache
       ELSE /\ raised' = None
            /\ returned' = <<(<<FALSE>>)>>
            /\ internal_tx \in db'.processed

\* C14: a call whose InternalTx used less than 1000 gas is rejected whatever
\* its function name, setup included: the result is False and no wallet
\* record, configuration, snapshot, transaction or confirmation is created or
\* changed; a call that used exactly 1000 gas is dispatched.
C14_GasGuard ==
    [][\A internal_tx \in DOMAIN decoded :
          LET d == decoded[internal_tx]
          IN /\ (d.gas_used < 1000 /\ Handles(internal_tx))
                => Rejected(internal_tx)
             /\ (/\ d.gas_used = 1000
                 /\ d.function_name \in {"setup", "addOwnerWithThreshold",
                                         "execTransaction"}
                 /\ d.function_name = "setup" \/ LatestRows(work, d._from) # {}
                 /\ Handles(internal_tx))
                => /\ Applied(internal_tx)
                   /\ \E l \in LatestRows(work', d._from) :
                         l.internal_tx = internal_tx]_vars

\* In a batch, the setup with little gas was rejected and a call of the same
\* wallet with 1000 gas was applied before it: the configuration is not the
\* one of the rejected setup
C14_Witness ==
    /\ pc = "idle" /\ entry = "process_decoded_transactions"
    /\ returned # <<>>
    /\ \E i, j \in 1..Len(calls) :
          /\ j < i
          /\ decoded[calls[i]] = LowGas(Setup("S1", <<"B">>, 1, "MC1"))
          /\ ~returned[1][i]
          /\ decoded[calls[j]].gas_used = 1000
          /\ returned[1][j]
          /\ \E l \in LatestRows(db, "S1") :
                l.owners = <<"A">> /\ l.internal_tx = calls[j]
          /\ ~\E s \in db.SafeStatus : s.internal_tx = calls[i]

SupportedFunctions ==
    {"setup", "addOwnerWithThreshold", "removeOwner", "removeOwnerWithThreshold",
     "swapOwner", "changeThreshold", "changeMasterCopy", "setFallbackHandler",
     "setGuard", "enableModule", "disableModule", "execTransactionFromModule",
     "execTransactionFromModuleReturnData", "approveHash", "execTransaction"}

\* C15: a call whose function name is none of the supported ones is rejected
\* without an exception: the result is False, no wallet state changes, and the
\* call is marked processed, by process_decoded_transaction and by
\* process_decoded_transactions.
C15_UnknownFunctionRejected ==
    [][/\ \A internal_tx \in DOMAIN decoded :
            (/\ decoded[internal_tx].function_name \notin SupportedFunctions
             /\ Handles(internal_tx))
            => Rejected(internal_tx)
       /\ Returns =>
            \A i \in 1..Len(calls) :
                decoded[calls[i]].function_name \notin SupportedFunctions
                => calls[i] \in db'.processed]_vars

\* The unknown call of a wallet that has a configuration was rejected by
\* process_decoded_transaction and is processed
C15_Witness ==
    /\ pc = "idle" /\ entry = "process_decoded_transaction"
    /\ returned = <<(<<FALSE>>)>>
    /\ decoded[calls[1]] = UnknownCall("S1")
    /\ calls[1] \in db.processed
    /\ \E l \in LatestRows(db, "S1") : l.internal_tx # calls[1]

\* C16: for a wallet without latest configuration and without snapshot, every
\* call but setup, addOwnerWithThreshold included, reports False without an
\* exception and creates or changes no wallet state.
C16_MissingStatusRejected ==
    [][\A internal_tx \in DOMAIN decoded :
          LET d == decoded[internal_tx]
          IN /\ d.function_name # "setup"
             /\ d.gas_used >= GasThreshold
             /\ LatestRows(work, d._from) = {}
             /\ ~\E s \in work.SafeStatus : s.address = d._from
             /\ Handles(internal_tx)
             => Rejected(internal_tx)]_vars

\* The module call without previous trace of a wallet without status came
\* back False from process_decoded_transaction
C16_Witness ==
    /\ pc = "idle" /\ entry = "process_decoded_transaction"
    /\ returned = <<(<<FALSE>>)>>
    /\ raised = None
    /\ decoded[calls[1]] = ModuleCall("S1", None)
    /\ LatestRows(db, "S1") = {}
    /\ db.ModuleTransaction = {}

-----------------------------------------------------------------------------
(* The single-call path and the cache *)

\* C17: in process_decoded_transaction an invariant violation leaves the
\* method as the exception: nothing is returned, the tables are the ones
\* before the call, and the call is not marked processed.
C17_SingleCallViolationAborts ==
    [][\A internal_tx \in DOMAIN decoded :
          (/\ process_decoded_transaction(internal_tx)
           /\ InvariantViolation(decoded[internal_tx]))
          => /\ raised' \in {"OwnerCannotBeRemoved", "ModuleCannotBeDisabled"}
             /\ returned' = <<>>
             /\ db' = db
             /\ internal_tx \notin db'.processed]_vars

\* disableModule of a module that is not enabled raised out of
\* process_decoded_transaction; the wallet has a configuration and the call is
\* still pending
C17_Witness ==
    /\ pc = "idle" /\ entry = "process_decoded_transaction"
    /\ raised = "ModuleCannotBeDisabled"
    /\ decoded[calls[1]] = DisableModule("S1", "M1")
    /\ calls[1] \notin db.processed
    /\ LatestRows(db, "S1") # {}

\* C18: process_decoded_transaction leaves the cache without an entry for the
\* wallet of the call on every way out: normal return, invariant violation
\* and hard failure; the call itself reads the tables, not an entry of the
\* cache.
C18_SingleCallClearsCache ==
    [][\A internal_tx \in DOMAIN decoded :
          process_decoded_transaction(internal_tx)
          => /\ decoded[internal_tx]._from \notin DOMAIN cache'
             /\ decoded[internal_tx]._from \notin DOMAIN cache]_vars

\* The three ways out were taken for a wallet with a configuration: here the
\* hard failure, after a call that stored a configuration
C18_Witness ==
    /\ pc = "idle" /\ entry = "process_decoded_transaction"
    /\ raised = "CannotFindPreviousTrace"
    /\ LatestRows(db, decoded[calls[1]]._from) # {}
    /\ decoded[calls[1]]._from \notin DOMAIN cache

C20_AddOwnerPrepends ==
    [][\A internal_tx \in DOMAIN decoded :
          LET d == decoded[internal_tx]
          IN \A l \in LatestRows(work, d._from) :
                (d.function_name = "addOwnerWithThreshold" /\ Applied(internal_tx))
                => \E m \in LatestRows(work', d._from) :
                      /\ m.internal_tx = internal_tx
                      /\ m.owners = <<d.arguments.owner>> \o l.owners
                      /\ m.threshold = IF d.arguments._threshold # 0
                                       THEN d.arguments._threshold
                                       ELSE l.threshold
                      /\ m.nonce = l.nonce]_vars

-----------------------------------------------------------------------------
(* Calls that need the previous trace *)

\* SafeModuleTransaction event of an L2 Safe: the module is an argument
ModuleEvent(safe, module, previous_trace) ==
    [ModuleCall(safe, previous_trace) EXCEPT !.arguments.module = module]

ModuleExact(safe, previous_trace) ==
    [ModuleCall(safe, previous_trace) EXCEPT !.function_name = "execTransactionFromModule"]

ApproveHash(safe, owner, previous_trace) ==
    InternalTxDecoded(safe, "MC1", "approveHash",
        [NoArguments EXCEPT !.owner = owner,
                            !.hashToApprove = <<Proposal("S1", "P2", 1).safe_tx_hash>>],
        GasThreshold, previous_trace, FALSE)

TraceRows ==
    {Setup("S1", <<"A">>, 1, "MC1"),
     ModuleCall("S1", None),
     ModuleCall("S1", "Web3RPCError"),
     ModuleCall("S1", "M1"),
     ModuleEvent("S1", "M2", "Web3RPCError"),
     ModuleExact("S1", None),
     ModuleExact("S1", "M1"),
     ApproveHash("S1", None, None),
     ApproveHash("S1", None, "Web3RPCError"),
     ApproveHash("S1", None, "A"),
     ApproveHash("S1", "B", None)}

InitTrace == \E rows \in [1..MaxDecoded -> TraceRows] : InitFrom(rows, StoredTables)

SpecTrace == InitTrace /\ [][NextPending]_vars

\* This step leaves the method by the hard failure
RaisesCannotFindPreviousTrace ==
    raised' = "CannotFindPreviousTrace" /\ pc' = "idle" /\ returned' = <<>>

ConfirmationKeys(tables) ==
    {<<conf.multisig_transaction_hash, conf.owner>> : conf \in tables.MultisigConfirmation}

\* C22: approveHash without owner argument whose previous-trace lookup gives
\* nothing or fails with an RPC error raises CannotFindPreviousTrace, the
\* error of the module execution, and creates no confirmation.
C22_ApproveHashHardFailure ==
    [][\A internal_tx \in DOMAIN decoded :
          LET d == decoded[internal_tx]
          IN (/\ d.function_name = "approveHash"
              /\ d.arguments.owner = None
              /\ d.previous_trace \in {None, "Web3RPCError"}
              /\ d.gas_used >= GasThreshold
              /\ LatestRows(work, d._from) # {}
              /\ Handles(internal_tx))
             => /\ RaisesCannotFindPreviousTrace
                /\ ConfirmationKeys(work') \subseteq ConfirmationKeys(work)]_vars

\* C23: a call named execTransactionFromModule changes no state and looks up
\* no previous trace, so it raises nothing, and it is marked processed.
C23_ModuleExactNoEffect ==
    [][\A internal_tx \in DOMAIN decoded :
          LET d == decoded[internal_tx]
          IN (/\ d.function_name = "execTransactionFromModule"
              /\ d.gas_used >= GasThreshold
              /\ LatestRows(work, d._from) # {}
              /\ Handles(internal_tx))
             => /\ TablesKept
                /\ IF pc = "loop" THEN pc' = "loop"
                   ELSE raised' = None /\ internal_tx \in db'.processed]_vars

-----------------------------------------------------------------------------
(* Calls that are handed over again *)

\* The call was applied: the snapshot it produced is in the history
HasSnapshot(internal_tx) == \E s \in work.SafeStatus : s.internal_tx = internal_tx

\* C24: the processed flag of a call only goes from false to true, and a
\* call that was applied and is marked processed is not applied a second time
\* when it is handed to process_decoded_transaction or
\* process_decoded_transactions again: the tables stay as they were.
C24_ProcessedNeverReapplied ==
    [][/\ db.processed \subseteq db'.processed
       /\ \A internal_tx \in DOMAIN decoded :
             (/\ internal_tx \in db.processed
              /\ HasSnapshot(internal_tx)
              /\ Applies(internal_tx))
             => TablesKept]_vars

-----------------------------------------------------------------------------
(* The cache inside a batch *)

\* The configuration a call of the wallet would read now
ReadConfiguration(tables, c, address) ==
    get_last_safe_status_for_address(tables, c, address).status

\* C25: a call rejected with an invariant violation inside a batch leaves
\* the configuration that the next call of the wallet reads, and the tables
\* that the batch will persist, as they were before the call, in every field;
\* removeOwnerWithThreshold of an absent owner with threshold T leaves no T
\* behind.
C25_RejectedCallAllOrNothing ==
    [][(/\ InLoop
        /\ Current._from \notin banned_addresses
        /\ InvariantViolation(Current))
       => /\ work' = work
          /\ ReadConfiguration(work', cache', Current._from)
                = ReadConfiguration(work, cache, Current._from)]_vars

\* C26: between two calls of a batch every entry of the cache is the stored
\* latest configuration of its wallet, equal in every field.
C26_CacheEqualsStored ==
    \A address \in DOMAIN cache :
        /\ cache[address].address = address
        /\ cache[address] \in work.SafeLastStatus

-----------------------------------------------------------------------------
(* Owners *)

\* C27: a successful swapOwner(old, new) puts new where old was: the owner
\* list keeps its length, every other position keeps its owner, and threshold
\* and nonce are unchanged.
C27_SwapOwnerInPlace ==
    [][\A internal_tx \in DOMAIN decoded :
          LET d == decoded[internal_tx]
          IN \A l \in LatestRows(work, d._from) :
                (d.function_name = "swapOwner" /\ Applied(internal_tx))
                => \E m \in LatestRows(work', d._from) :
                      /\ m.internal_tx = internal_tx
                      /\ Len(m.owners) = Len(l.owners)
                      /\ \E k \in 1..Len(l.owners) : l.owners[k] = d.arguments.oldOwner
                      /\ \A k \in 1..Len(l.owners) :
                            m.owners[k] = IF l.owners[k] = d.arguments.oldOwner
                                          THEN d.arguments.newOwner
                                          ELSE l.owners[k]
                      /\ m.threshold = l.threshold
                      /\ m.nonce = l.nonce]_vars

\* C30: in every reachable state no owner list holds an address twice.
C30_OwnersDistinct ==
    \A l \in work.SafeLastStatus \cup db.SafeLastStatus :
        \A j, k \in 1..Len(l.owners) : j # k => l.owners[j] # l.owners[k]

-----------------------------------------------------------------------------
(* Owners of two wallets with confirmations *)

\* SafeMessage.safe: the wallet a message belongs to
SafeOfMessage(safe_message) == IF safe_message = "Msg2" THEN "S2" ELSE "S1"

\* StoredTables with a confirmation of B on a proposal of nonce 0 and a
\* confirmation of B on a message of S2
ConfirmationTables ==
    [StoredTables EXCEPT
        !.MultisigConfirmation = @ \cup {Confirmation(Proposal("S1", "P3", 0), "B")},
        !.SafeMessageConfirmation = @ \cup {[safe_message |-> "Msg2", owner |-> "B"]}]

ConfirmationRows ==
    {Setup("S1", <<"A", "B">>, 1, "MC1"),
     Setup("S2", <<"B">>, 1, "MC1"),
     ExecTransaction("S1", Nothing, Signed("B")),
     OwnerCall("S1", "removeOwner", "B", 0),
     OwnerCall("S1", "removeOwner", "A", 0),
     SwapOwner("S1", "B", "C"),
     ChangeMasterCopy("S1", "MC2")}

InitConfirmations ==
    \E rows \in [1..MaxDecoded -> ConfirmationRows] : InitFrom(rows, ConfirmationTables)

SpecConfirmations == InitConfirmations /\ [][NextPending]_vars

\* The confirmations of the owner on transactions of the wallet that are not
\* executed and have a nonce of at least current_nonce
UnusedConfirmations(tables, safe, current_nonce, owner) ==
    {conf \in tables.MultisigConfirmation :
        /\ conf.owner = owner
        /\ \E t \in tables.MultisigTransaction :
              /\ conf.multisig_transaction = <<t.safe_tx_hash>>
              /\ t.safe = safe
              /\ t.ethereum_tx = <<>>
              /\ t.nonce >= current_nonce}

\* C28: removing or swapping out owner O of wallet W deletes exactly the
\* confirmations of O on the transactions of W that are not executed and have
\* a nonce greater than or equal to the current nonce of W; the confirmations
\* of O on executed transactions or with a lower nonce and the confirmations
\* of other owners are kept.
C28_RemovesUnusedConfirmations ==
    [][\A internal_tx \in DOMAIN decoded :
          LET d == decoded[internal_tx]
          IN \A l \in LatestRows(work, d._from) :
                (/\ d.function_name \in {"removeOwner", "removeOwnerWithThreshold",
                                         "swapOwner"}
                 /\ Applied(internal_tx))
                => work'.MultisigConfirmation =
                      work.MultisigConfirmation
                         \ UnusedConfirmations(work, d._from, l.nonce, Removes(d))]_vars

\* B was removed from S1 after the execution of nonce 0: its confirmation on
\* the proposal of nonce 1 is gone, the ones on the executed transaction, on
\* the proposal of nonce 0 and on S2 are kept, and so is the one of C
C28_Witness ==
    /\ pc = "idle" /\ raised = None /\ calls # <<>>
    /\ decoded[calls[Len(calls)]] = OwnerCall("S1", "removeOwner", "B", 0)
    /\ \E l \in LatestRows(db, "S1") : l.nonce = 1 /\ l.internal_tx = calls[Len(calls)]
    /\ Confirmation(Proposal("S1", "P2", 1), "B") \notin db.MultisigConfirmation
    /\ Confirmation(Proposal("S1", "P2", 1), "C") \in db.MultisigConfirmation
    /\ Confirmation(Proposal("S1", "P3", 0), "B") \in db.MultisigConfirmation
    /\ Confirmation(Proposal("S2", "P2", 0), "B") \in db.MultisigConfirmation
    /\ \E conf \in db.MultisigConfirmation :
          /\ conf.owner = "B"
          /\ \E t \in db.MultisigTransaction :
                /\ conf.multisig_transaction = <<t.safe_tx_hash>>
                /\ t.safe = "S1" /\ t.ethereum_tx # <<>>

\* Everything the tables hold for one wallet
BelongsTo(tables, address) ==
    [SafeContract |-> {sc \in tables.SafeContract : sc.address = address},
     SafeLastStatus |-> {l \in tables.SafeLastStatus : l.address = address},
     SafeStatus |-> {st \in tables.SafeStatus : st.address = address},
     MultisigTransaction |-> {t \in tables.MultisigTransaction : t.safe = address},
     MultisigConfirmation |->
        {conf \in tables.MultisigConfirmation :
            \E t \in tables.MultisigTransaction :
                conf.multisig_transaction_hash = t.safe_tx_hash /\ t.safe = address},
     ModuleTransaction |-> {m \in tables.ModuleTransaction : m.safe = address},
     SafeContractDelegate |->
        {g \in tables.SafeContractDelegate : g.safe_contract = address},
     SafeMessageConfirmation |->
        {m \in tables.SafeMessageConfirmation : SafeOfMessage(m.safe_message) = address}]

\* C29: a call for wallet W changes nothing that belongs to another wallet:
\* configuration, snapshots, transactions, confirmations, delegates and
\* message confirmations of the other wallet stay, also when the call removes
\* from W an owner who is an owner of the other wallet too.
C29_OtherWalletUntouched ==
    [][\A internal_tx \in DOMAIN decoded :
          Applies(internal_tx)
          => \A address \in Safes \ {decoded[internal_tx]._from} :
                BelongsTo(work', address) = BelongsTo(work, address)]_vars

-----------------------------------------------------------------------------
(* Calls that assign one field of the configuration *)

ChangeThreshold(safe, threshold) ==
    InternalTxDecoded(safe, "MC1", "changeThreshold",
        [NoArguments EXCEPT !._threshold = threshold],
        GasThreshold, None, FALSE)

SetFallbackHandler(safe, handler) ==
    InternalTxDecoded(safe, "MC1", "setFallbackHandler",
        [NoArguments EXCEPT !.handler = handler],
        GasThreshold, None, FALSE)

SetGuard(safe, guard) ==
    InternalTxDecoded(safe, "MC1", "setGuard",
        [NoArguments EXCEPT !.guard = guard],
        GasThreshold, None, FALSE)

FieldRows ==
    {Setup("S1", <<"A", "B">>, 1, "MC1"),
     OwnerCall("S1", "removeOwnerWithThreshold", "C", 2),
     ChangeThreshold("S1", 2),
     SetFallbackHandler("S1", "FH2"),
     SetGuard("S1", "G1"),
     SetGuard("S1", NULL_ADDRESS),
     EnableModule("S1", "M1"),
     EnableModule("S1", "M2")}

InitFields == \E rows \in [1..MaxDecoded -> FieldRows] : InitFrom(rows, StoredTables)

SpecFields == InitFields /\ [][NextPending]_vars

\* The configuration the call leaves when it assigns its own field only
FieldAssigned(l, d) ==
    IF d.function_name = "changeThreshold"
    THEN [l EXCEPT !.threshold = d.arguments._threshold]
    ELSE IF d.function_name = "setFallbackHandler"
    THEN [l EXCEPT !.fallback_handler = d.arguments.handler]
    ELSE IF d.function_name = "setGuard"
    THEN [l EXCEPT !.guard = IF d.arguments.guard = NULL_ADDRESS
                             THEN None ELSE d.arguments.guard]
    ELSE [l EXCEPT !.enabled_modules = Append(@, d.arguments.module)]

\* C31: changeThreshold, setFallbackHandler, setGuard and enableModule each
\* change their own field only (the threshold; the fallback handler; the
\* guard, cleared by the zero address; the module appended at the end of the
\* enabled list) and leave the owners, the nonce, the master copy and every
\* other field as stored; no function other than setup and execTransaction
\* changes the nonce.
C31_FieldChangeFrame ==
    [][\A internal_tx \in DOMAIN decoded :
          LET d == decoded[internal_tx]
          IN \A l \in LatestRows(work, d._from) :
                Applied(internal_tx)
                => /\ d.function_name \in {"changeThreshold", "setFallbackHandler",
                                           "setGuard", "enableModule"}
                      => LatestRows(work', d._from) =
                            {[FieldAssigned(l, d) EXCEPT !.internal_tx = internal_tx]}
                   /\ d.function_name \notin {"setup", "execTransaction"}
                      => \A m \in LatestRows(work', d._from) : m.nonce = l.nonce]_vars

-----------------------------------------------------------------------------
(* Module executions and hash approvals, processed any number of times *)

ModuleReplayRows ==
    {Setup("S1", <<"A">>, 1, "MC1"),
     ModuleCall("S1", "M1"),
     ModuleCall("S1", None),
     ModuleEvent("S1", "M2", None),
     ApproveHash("S1", "B", None),
     ApproveHash("S1", None, "A"),
     EnableModule("S1", "M1")}

InitModuleReplay ==
    \E rows \in [1..MaxDecoded -> ModuleReplayRows] :
        /\ rows[1].function_name = "setup"
        /\ InitFrom(rows, StoredTables)

SpecModuleReplay == InitModuleReplay /\ [][NextReplay]_vars

ModuleFunctions == {"execTransactionFromModule", "execTransactionFromModuleReturnData"}

\* One ModuleTransaction per raw call, one marker per (transaction, wallet)
OnePerKey(tables) ==
    /\ \A internal_tx \in DOMAIN decoded :
          Cardinality({m \in tables.ModuleTransaction :
                          m.internal_tx = internal_tx}) <= 1
    /\ \A r1, r2 \in tables.SafeRelevantTransaction :
          (r1.ethereum_tx = r2.ethereum_tx /\ r1.safe = r2.safe) => r1 = r2

\* C32: however often a module execution is processed, there is at most one
\* ModuleTransaction for its raw call and at most one relevant-transaction
\* marker per (transaction, wallet); processing a module execution or an
\* approveHash creates no snapshot and leaves the configuration as it was.
C32_ModuleReplayIdempotent ==
    [][/\ OnePerKey(work')
       /\ \A internal_tx \in DOMAIN decoded :
             (/\ decoded[internal_tx].function_name \in ModuleFunctions \cup {"approveHash"}
              /\ Applies(internal_tx))
             => /\ work'.SafeStatus = work.SafeStatus
                /\ work'.SafeLastStatus = work.SafeLastStatus]_vars

\* A module execution stored by an earlier unit of work has been applied again
\* by the running batch, after a second module execution of the same
\* transaction and wallet
C32_Witness ==
    /\ pc = "loop" /\ idx = 3
    /\ decoded[calls[1]].function_name \in ModuleFunctions
    /\ decoded[calls[2]].function_name \in ModuleFunctions
    /\ EthereumTxOf(calls[1]) = EthereumTxOf(calls[2])
    /\ results = <<TRUE, TRUE>>
    /\ calls[2] \in db.processed
    /\ \E m \in db.ModuleTransaction : m.internal_tx = calls[2]
    /\ \E m \in work.ModuleTransaction : m.internal_tx = calls[1]
    /\ \E l \in work.SafeLastStatus : l.address = "S1"

-----------------------------------------------------------------------------
(* Executions and approvals of transactions proposed before *)

Failing(call) == [call EXCEPT !.failure_log = TRUE]

\* execTransaction event of an L2 Safe for the proposal P2 with nonce 1
ExecProposed(safe, signers) ==
    [ExecTransaction(safe, <<1>>, signers) EXCEPT !.arguments.payload = "P2"]

ExecRows ==
    {Setup("S1", <<"A", "B">>, 1, "MC1"),
     ExecTransaction("S1", <<0>>, Signed("A")),
     Failing(ExecTransaction("S1", <<0>>, Signed("B"))),
     ExecProposed("S1", Signed("A")),
     ApproveHash("S1", "A", None)}

\* The wallet has its setup among the calls
InitExec ==
    \E rows \in [1..MaxDecoded -> ExecRows] :
        /\ \E i \in DOMAIN rows : rows[i].function_name = "setup"
        /\ InitFrom(rows, StoredTables)

SpecExec == InitExec /\ [][NextReplay]_vars

\* The hash execTransaction computes for the call on the configuration l
ExecHash(d, l) ==
    LET version == get_version_for_address(l.master_copy)
    IN safe_tx_hash(d._from, d.arguments.payload, d.arguments.gasField,
                    resolve_nonce(d.arguments, l),
                    IF d.arguments.gasField = "baseGas"
                    THEN (IF version # <<>> THEN version[1]
                          ELSE [release |-> <<1, 3, 0>>, local |-> ""])
                    ELSE [release |-> <<0, 0, 1>>, local |-> ""])

\* C33: for a MultisigTransaction that exists by hash, execTransaction fills
\* in the executing transaction, the failed flag, the signatures and
\* trusted = true only when the record has no executing transaction yet; once
\* it has one, no later execTransaction changes its executing transaction, its
\* failed flag, its signatures or any other field.
C33_ExecutionFilledOnce ==
    [][\A internal_tx \in DOMAIN decoded :
          LET d == decoded[internal_tx]
          IN \A l \in LatestRows(work, d._from) :
                (d.function_name = "execTransaction" /\ Applies(internal_tx))
                => \A t \in work.MultisigTransaction :
                      IF t.safe_tx_hash = ExecHash(d, l) /\ t.ethereum_tx = <<>>
                      THEN {u \in work'.MultisigTransaction :
                               u.safe_tx_hash = t.safe_tx_hash} =
                           {[t EXCEPT !.ethereum_tx = <<EthereumTxOf(internal_tx)>>,
                                      !.failed = <<is_failed(internal_tx)>>,
                                      !.signatures = d.arguments.signatures,
                                      !.trusted = TRUE]}
                      ELSE {u \in work'.MultisigTransaction :
                               u.safe_tx_hash = t.safe_tx_hash} = {t}]_vars

\* A proposed transaction was executed by one call, and a second call with the
\* same hash, other signatures and the failure event has been applied after it
C33_Witness ==
    /\ pc = "loop" /\ idx = 3
    /\ results = <<TRUE, TRUE>>
    /\ decoded[calls[1]].function_name = "execTransaction"
    /\ decoded[calls[2]].function_name = "execTransaction"
    /\ decoded[calls[1]].arguments.nonce = <<0>>
    /\ decoded[calls[2]].arguments.nonce = <<0>>
    /\ ~decoded[calls[1]].failure_log /\ decoded[calls[2]].failure_log
    /\ \E t \in work.MultisigTransaction :
          /\ t.safe_tx_hash = Proposal("S1", "P1", 0).safe_tx_hash
          /\ t.ethereum_tx = <<EthereumTxOf(calls[1])>>
          /\ t.failed = <<FALSE>>
          /\ t.signatures = decoded[calls[1]].arguments.signatures
          /\ t.trusted

\* The owner approveHash confirms for: the argument of the event, or the
\* caller of the previous trace
ApprovingOwner(d) ==
    IF HasKey(d.arguments.owner) THEN d.arguments.owner ELSE d.previous_trace

ConfirmationsOf(tables, hash, owner) ==
    {conf \in tables.MultisigConfirmation :
        conf.multisig_transaction_hash = hash /\ conf.owner = owner}

\* C34: there is at most one MultisigConfirmation per (hash, owner): approveHash
\* and execTransaction giving the same owner and hash, in either order and any
\* number of times, leave one confirmation; an execution leaves it with the
\* signature of the execution, and approveHash changes nothing of a stored
\* confirmation but its executing transaction, and that only when it was
\* missing.
C34_OneConfirmationPerOwner ==
    [][/\ \A c1, c2 \in work'.MultisigConfirmation :
             (/\ c1.multisig_transaction_hash = c2.multisig_transaction_hash
              /\ c1.owner = c2.owner) => c1 = c2
       /\ \A internal_tx \in DOMAIN decoded :
             LET d == decoded[internal_tx]
             IN \A l \in LatestRows(work, d._from) :
                  /\ (d.function_name = "execTransaction" /\ Applies(internal_tx))
                     => \A i \in DOMAIN d.arguments.signatures :
                          LET safe_signature == d.arguments.signatures[i]
                              before == ConfirmationsOf(work, ExecHash(d, l),
                                                        safe_signature.owner)
                              after == ConfirmationsOf(work', ExecHash(d, l),
                                                       safe_signature.owner)
                          IN /\ \E conf \in after :
                                  /\ conf.signature = safe_signature
                                  /\ conf.signature_type = safe_signature.signature_type
                             /\ \A old \in before : \A conf \in after :
                                  conf.ethereum_tx = old.ethereum_tx
                  /\ (d.function_name = "approveHash" /\ Applies(internal_tx)
                        /\ raised' = None)
                     => LET before == ConfirmationsOf(work, d.arguments.hashToApprove[1],
                                                      ApprovingOwner(d))
                            after == ConfirmationsOf(work', d.arguments.hashToApprove[1],
                                                     ApprovingOwner(d))
                        IN IF before = {}
                           THEN \E conf \in after :
                                  /\ conf.ethereum_tx = <<EthereumTxOf(internal_tx)>>
                                  /\ conf.signature =
                                        approved_hash_signature(ApprovingOwner(d))
                           ELSE after =
                                  {IF old.ethereum_tx = <<>>
                                   THEN [old EXCEPT !.ethereum_tx =
                                                       <<EthereumTxOf(internal_tx)>>]
                                   ELSE old : old \in before}]_vars

\* The owner A approved the hash before the execution: approveHash created the
\* confirmation with its transaction, and the execution signed by A, applied
\* after it, replaced the signature of the approval by its own
C34_Witness ==
    /\ pc = "idle" /\ raised = None
    /\ \E internal_tx \in db.processed :
          decoded[internal_tx].function_name = "execTransaction"
    /\ \E conf \in db.MultisigConfirmation :
          /\ conf.multisig_transaction_hash = Proposal("S1", "P2", 1).safe_tx_hash
          /\ conf.owner = "A"
          /\ conf.signature = [owner |-> "A", signature_type |-> "EOA"]
          /\ conf.signature_type = "EOA"
          /\ conf.ethereum_tx = <<1>>
          /\ conf.multisig_transaction = <<>>

-----------------------------------------------------------------------------
(* is_version_breaking_signatures on pairs of versions *)

MaxMinor == 4

\* Version strings major.minor.patch with or without the local part +L2
Versions ==
    {[release |-> <<major, minor, patch>>, local |-> local] :
        major \in 0..2, minor \in 0..MaxMinor, patch \in 0..1, local \in {"", "L2"}}

\* The processor after construction, and the two arguments of the call
InitVersions ==
    /\ \E old_safe_version, new_safe_version \in Versions :
          calls = <<old_safe_version, new_safe_version>>
    /\ decoded = <<>>
    /\ db = EmptyTables
    /\ work = EmptyTables
    /\ cache = <<>>
    /\ pc = "idle"
    /\ entry = None
    /\ idx = 1
    /\ results = <<>>
    /\ banned_addresses = {}
    /\ returned = <<>>
    /\ raised = None

\* One call of is_version_breaking_signatures(old_safe_version, new_safe_version)
call_is_version_breaking_signatures ==
    /\ returned = <<>>
    /\ returned' = <<is_version_breaking_signatures(calls[1], calls[2])>>
    /\ entry' = "is_version_breaking_signatures"
    /\ UNCHANGED <<decoded, db, work, cache, pc, calls, idx, results,
                   banned_addresses, raised>>

NextVersions == call_is_version_breaking_signatures

SpecVersions == InitVersions /\ [][NextVersions]_vars

\* Order of release numbers: v <= w
ReleaseLeq(v, w) ==
    \/ v[1] < w[1]
    \/ v[1] = w[1] /\ v[2] < w[2]
    \/ v[1] = w[1] /\ v[2] = w[2] /\ v[3] <= w[3]

\* A boundary lies in the interval (min, max] of the two releases
BoundaryBetween(v, w) ==
    \E boundary \in {<<1, 0, 0>>, <<1, 3, 0>>} :
        \/ ~ReleaseLeq(boundary, v) /\ ReleaseLeq(boundary, w)
        \/ ~ReleaseLeq(boundary, w) /\ ReleaseLeq(boundary, v)

\* C35: is_version_breaking_signatures(old, new) is true exactly when one of
\* the boundaries 1.0.0 and 1.3.0 lies in the interval (min, max] of the two
\* versions without their local part; it gives the same for (new, old), and
\* false when the two versions are equal.
C35_BreakingExactlyAcrossBoundary ==
    returned # <<>>
    => /\ returned[1] = BoundaryBetween(calls[1].release, calls[2].release)
       /\ returned[1] = is_version_breaking_signatures(calls[2], calls[1])
       /\ calls[1].release = calls[2].release => ~returned[1]

\* The call was made with the newer version first, the older one carrying a
\* local part, and the boundary 1.3.0 equal to the greater of the two
C35_Witness ==
    /\ returned = <<TRUE>>
    /\ calls[1] = [release |-> <<1, 3, 0>>, local |-> ""]
    /\ calls[2] = [release |-> <<1, 1, 1>>, local |-> "L2"]

-----------------------------------------------------------------------------
(* Wallets whose latest configuration is missing *)

GenerateRows ==
    {Setup("S1", <<"A">>, 1, "MC1"),
     ExecTransaction("S1", <<1>>, Signed("A")),
     ExecTransaction("S1", Nothing, Signed("A")),
     EnableModule("S1", "M1"),
     ChangeThreshold("S1", 2),
     ApproveHash("S1", "A", None),
     UnknownCall("S1"),
     UnknownCall("S2")}

\* The tables after process_decoded_transaction of one call
TablesAfter(tables, internal_tx) ==
    LET r == __process_decoded_transaction(tables, <<>>, internal_tx)
    IN IF r.exc = None THEN set_processed(r.tables, {internal_tx}) ELSE tables

\* Two of the calls were processed, the setup first, and the SafeLastStatus
\* rows were lost afterwards: the snapshots are all that is left
InitGenerate ==
    \E rows \in [1..MaxDecoded -> GenerateRows] :
      \E first, second \in 1..2 :
        /\ first # second
        /\ rows[first].function_name = "setup"
        /\ decoded = rows
        /\ db = [TablesAfter(TablesAfter(EmptyTables, first), second)
                    EXCEPT !.SafeLastStatus = {}]
        /\ work = db
        /\ cache = <<>>
        /\ pc = "idle"
        /\ entry = None
        /\ calls = <<>>
        /\ idx = 1
        /\ results = <<>>
        /\ banned_addresses = {}
        /\ returned = <<>>
        /\ raised = None

SpecGenerate == InitGenerate /\ [][NextPending]_vars

\* Key of a snapshot in the order nonce, block number, transaction index, id
MinedKeyLeq(s, t) ==
    LET sb == BlockNumber(EthereumTxOf(s.internal_tx))
        tb == BlockNumber(EthereumTxOf(t.internal_tx))
        si == TransactionIndex(EthereumTxOf(s.internal_tx))
        ti == TransactionIndex(EthereumTxOf(t.internal_tx))
    IN IF s.nonce # t.nonce THEN s.nonce < t.nonce
       ELSE IF sb # tb THEN sb < tb
       ELSE IF si # ti THEN si < ti
       ELSE s.internal_tx <= t.internal_tx

Snapshots(tables, address) == {s \in tables.SafeStatus : s.address = address}

\* The snapshots of the wallet that are greatest in that order
GreatestSnapshots(tables, address) ==
    {s \in Snapshots(tables, address) :
        \A t \in Snapshots(tables, address) : MinedKeyLeq(t, s)}

\* C36: when a wallet has no latest row but has snapshots, a call that reads
\* the configuration regenerates the latest row from the snapshot that is
\* greatest in (nonce, block number, transaction index, raw-call id) order and
\* persists it equal to that snapshot; with neither a latest row nor a
\* snapshot, no latest row is created.
C36_LatestRegenerated ==
    [][\A internal_tx \in DOMAIN decoded :
          LET d == decoded[internal_tx]
          IN (/\ Handles(internal_tx)
              /\ d.function_name # "setup"
              /\ d._from \notin DOMAIN cache
              /\ LatestRows(work, d._from) = {})
             => IF Snapshots(work, d._from) = {}
                THEN LatestRows(work', d._from) = {}
                ELSE \A g \in GreatestSnapshots(work, d._from) :
                        IF d.function_name \in {"approveHash", "transfer"}
                        THEN LatestRows(work', d._from) = {g}
                        ELSE IF d.function_name \in {"changeThreshold", "enableModule"}
                        THEN LatestRows(work', d._from) =
                                {[FieldAssigned(g, d) EXCEPT !.internal_tx = internal_tx]}
                        ELSE \A l \in LatestRows(work', d._from) :
                                /\ l.owners = g.owners
                                /\ l.nonce = resolve_nonce(d.arguments, g) + 1]_vars

\* The latest row was regenerated from the snapshot of greatest nonce, which
\* is not the snapshot of the greatest raw-call id
C36_Witness ==
    /\ pc = "idle" /\ entry = "process_decoded_transaction"
    /\ decoded[calls[1]].function_name = "transfer"
    /\ \E l \in db.SafeLastStatus : \E s \in db.SafeStatus :
          /\ l.address = "S1" /\ s.address = "S1"
          /\ l.nonce = 2
          /\ l \in db.SafeStatus
          /\ s.nonce = 0
          /\ s.internal_tx > l.internal_tx

-----------------------------------------------------------------------------
(* The latest row and the snapshots *)

StateChangingFunctions ==
    {"setup", "addOwnerWithThreshold", "removeOwner", "removeOwnerWithThreshold",
     "swapOwner", "changeThreshold", "changeMasterCopy", "setFallbackHandler",
     "setGuard", "enableModule", "disableModule", "execTransaction"}

\* C37: after every successfully applied state-changing call the latest row
\* of the wallet references that call and equals, in every field, the snapshot
\* of the wallet that is greatest in (nonce, block number, transaction index,
\* raw-call id) order, so that regenerating the latest row gives the same
\* configuration.
C37_LatestIsGreatestSnapshot ==
    [][\A internal_tx \in DOMAIN decoded :
          LET d == decoded[internal_tx]
          IN (d.function_name \in StateChangingFunctions /\ Applied(internal_tx))
             => /\ LatestRows(work', d._from) # {}
                /\ \A l \in LatestRows(work', d._from) :
                      /\ l.internal_tx = internal_tx
                      /\ l \in GreatestSnapshots(work', d._from)]_vars

-----------------------------------------------------------------------------
(* The pending queue of a wallet *)

\* i is before j on the chain: block number, transaction index, raw-call id
ChainBefore(i, j) ==
    \/ BlockNumber(EthereumTxOf(i)) < BlockNumber(EthereumTxOf(j))
    \/ /\ BlockNumber(EthereumTxOf(i)) = BlockNumber(EthereumTxOf(j))
       /\ TransactionIndex(EthereumTxOf(i)) < TransactionIndex(EthereumTxOf(j))
    \/ /\ EthereumTxOf(i) = EthereumTxOf(j)
       /\ i < j

IsSetup(i) == decoded[i].function_name = "setup"

\* The queue holds the unprocessed calls of the wallet, each once, and no other
ListsPending(queue, address) ==
    /\ {queue[k] : k \in DOMAIN queue} =
          {i \in DOMAIN decoded : decoded[i]._from = address /\ i \notin db.processed}
    /\ \A k, m \in DOMAIN queue : k # m => queue[k] # queue[m]

-----------------------------------------------------------------------------
(* The nonces of the snapshots *)

\* No call of the wallet carries a nonce argument
NoNonceArgument(address) ==
    \A i \in DOMAIN decoded :
        decoded[i]._from = address => decoded[i].arguments.nonce = <<>>

DistinctNonces(tables, l) ==
    {s.nonce : s \in {s \in tables.SafeStatus :
                        s.address = l.address /\ s.nonce <= l.nonce}}

\* C39: for a wallet indexed from its setup by calls without nonce argument,
\* each applied once and in the order of the queue, the number of distinct
\* nonces among its snapshots with nonce at most the latest nonce is the
\* latest nonce plus one in every reachable state, and is_corrupted does not
\* report the wallet as corrupted.
C39_NeverCorrupted ==
    \A l \in work.SafeLastStatus :
        NoNonceArgument(l.address)
        => /\ Cardinality(DistinctNonces(work, l)) = l.nonce + 1
           /\ ~is_corrupted(work, l)

\* Setup and two executions without nonce argument were applied: the latest
\* nonce is 2 and the snapshots carry the nonces 0, 1 and 2
C39_Witness ==
    /\ pc = "idle"
    /\ NoNonceArgument("S1")
    /\ \E l \in db.SafeLastStatus :
          /\ l.address = "S1" /\ l.nonce = 2
          /\ DistinctNonces(db, l) = {0, 1, 2}

-----------------------------------------------------------------------------
(* Two units of work on one processor instance *)

ConcurrentRows ==
    {Setup("S1", <<"A", "B">>, 1, "MC1"),
     OwnerCall("S1", "removeOwnerWithThreshold", "C", 2),
     OwnerCall("S1", "addOwnerWithThreshold", "C", 0),
     EnableModule("S1", "M1"),
     Setup("S2", <<"A">>, 1, "MC1"),
     EnableModule("S2", "M1"),
     ChangeThreshold("S2", 2)}

InitConcurrent ==
    \E rows \in [1..MaxDecoded -> ConcurrentRows] : InitFrom(rows, EmptyTables)

\* What another transaction committed, seen by the running atomic block
Committed(view, old, new) ==
    [t \in DOMAIN view |-> (view[t] \ (old[t] \ new[t])) \cup (new[t] \ old[t])]

\* process_decoded_transaction, called on the SafeTxProcessorProvider instance
\* by a second worker for a wallet that the running batch does not hold
concurrent_process_decoded_transaction(internal_tx) ==
    /\ decoded[internal_tx]._from = "S2"
    /\ pending_for_safe("S2") # <<>>
    /\ internal_tx = Head(pending_for_safe("S2"))
    /\ LET contract_address == decoded[internal_tx]._from
           r == __process_decoded_transaction(
                    db, clear_cache(cache, contract_address), internal_tx)
           written == IF r.exc = None
                      THEN set_processed(r.tables, {internal_tx})
                      ELSE r.tables
       IN /\ WithinBounds(r.tables)
          /\ db' = atomic(db, written, r.exc)
          /\ work' = Committed(work, db, db')
          /\ cache' = clear_cache(r.cache, contract_address)
    /\ UNCHANGED <<decoded, pc, entry, calls, idx, results, banned_addresses,
                   returned, raised>>

\* One worker takes the pending calls of S1 as one batch; the other worker
\* takes the pending calls of S2 one by one, at any time
NextConcurrent ==
    \/ /\ pending_for_safe("S1") # <<>>
       /\ process_decoded_transactions_begin(pending_for_safe("S1"))
    \/ process_decoded_transactions_loop
    \/ process_decoded_transactions_return
    \/ \E internal_tx \in DOMAIN decoded :
          concurrent_process_decoded_transaction(internal_tx)

SpecConcurrent == InitConcurrent /\ [][NextConcurrent]_vars

\* The tables a batch leaves when it runs alone (no call of the rows fails
\* hard: an exception is absorbed)
RECURSIVE RunBatch(_, _, _)
RunBatch(tables, c, input) ==
    IF input = <<>>
    THEN set_processed(tables, {i \in DOMAIN decoded : decoded[i]._from = "S1"})
    ELSE LET r == __process_decoded_transaction(tables, c, Head(input))
         IN RunBatch(r.tables, r.cache, Tail(input))

\* The tables the calls leave when they are processed one by one, alone
RECURSIVE RunSingle(_, _)
RunSingle(tables, input) ==
    IF input = <<>> THEN tables
    ELSE LET r == __process_decoded_transaction(tables, <<>>, Head(input))
         IN RunSingle(IF r.exc = None
                      THEN set_processed(r.tables, {Head(input)})
                      ELSE tables, Tail(input))

CallsOf(address) ==
    order_by_processing_queue({i \in DOMAIN decoded : decoded[i]._from = address})

\* The two units one after the other
OneAfterTheOther ==
    RunSingle(RunBatch(EmptyTables, <<>>, CallsOf("S1")), CallsOf("S2"))

\* The step of a worker keeps the cache entries of the wallets of the other
CacheKept(addresses) ==
    \A a \in addresses :
        /\ a \in DOMAIN cache <=> a \in DOMAIN cache'
        /\ a \in DOMAIN cache => cache'[a] = cache[a]

\* C40: two units of work that run concurrently on the same processor
\* instance for disjoint sets of wallets do not interfere through the cache:
\* each reads and removes only the cache entries of its own wallets, and every
\* wallet ends with the configuration it would have if the two units had run
\* one after the other.
C40_DisjointUnitsIndependent ==
    /\ [][/\ (\E internal_tx \in DOMAIN decoded :
                 concurrent_process_decoded_transaction(internal_tx))
             => CacheKept({"S1"})
          /\ (process_decoded_transactions_loop \/ process_decoded_transactions_return)
             => CacheKept({"S2"})]_vars
    /\ []((pc = "idle" /\ db.processed = DOMAIN decoded)
          => /\ db.SafeLastStatus = OneAfterTheOther.SafeLastStatus
             /\ db.SafeStatus = OneAfterTheOther.SafeStatus)

\* The second worker has stored the setup of S2 while the batch of the first
\* held the configuration of S1 in the cache, with the threshold a rejected
\* removal left there
C40_Witness ==
    /\ pc = "loop" /\ idx = 3
    /\ "S1" \in DOMAIN cache
    /\ cache["S1"].threshold = 2
    /\ \E l \in db.SafeLastStatus : l.address = "S2"
    /\ \E l \in work.SafeLastStatus : l.address = "S2"
    /\ \E l \in work.SafeLastStatus : l.address = "S1" /\ l.threshold = 1
    /\ ~\E l \in db.SafeLastStatus : l.address = "S1"

=============================================================================
